---- MODULE Spec2Model ----
(***************************************************************************)
(* State-machine model of the S3-like object storage backend:              *)
(*   backend/database.py    JSON-file metadata store                       *)
(*   backend/storage.py     bucket / object lifecycle                      *)
(*   backend/permissions.py sharing and authorization                      *)
(*   backend/search.py      search over the index                          *)
(*                                                                         *)
(* Strings the code takes apart (bucket ids, file names) are sequences of  *)
(* atoms: a user id (a uuid, which holds no "_") is one atom, "_" and " "  *)
(* are atoms, a file extension (".pdf") is one atom, other atoms are       *)
(* single characters.                                                      *)
(***************************************************************************)
EXTENDS Integers, Sequences, FiniteSets, TLC

\* ------------------------------------------------------------------ bounds
MaxFiles == 2
MaxPerms == 2
MaxFailures == 1
MaxCalls == 3
TicksPerDay == 2

\* ------------------------------------------------------- program constants
MAX_FILE_SIZE == 104857600
MAX_BUCKET_NAME_LEN == 63

\* levels among which the level of an owner is accepted
LevelsWithOwner == {"view", "upload", "full", "owner"}

PERMISSION_LEVELS == {"view", "upload", "full"}

IMAGE_EXT == {".jpg", ".jpeg", ".png", ".gif", ".bmp", ".svg", ".webp", ".ico"}
DOCUMENT_EXT == {".pdf", ".doc", ".docx", ".txt", ".rtf", ".odt", ".xls",
                 ".xlsx", ".ppt", ".pptx", ".csv"}
VIDEO_EXT == {".mp4", ".avi", ".mov", ".wmv", ".flv", ".webm", ".mkv", ".m4v"}
AUDIO_EXT == {".mp3", ".wav", ".flac", ".aac", ".ogg", ".wma", ".m4a"}
ARCHIVE_EXT == {".zip", ".rar", ".7z", ".tar", ".gz", ".bz2"}
CODE_EXT == {".py", ".js", ".html", ".css", ".json", ".xml", ".sql", ".php",
             ".java", ".cpp", ".c", ".h"}

ALLOWED_EXTENSIONS ==
    IMAGE_EXT \cup DOCUMENT_EXT \cup VIDEO_EXT \cup AUDIO_EXT \cup ARCHIVE_EXT
              \cup CODE_EXT

BLOCKED_EXTENSIONS ==
    {".exe", ".sh", ".bat", ".cmd", ".msi", ".dll", ".scr", ".pif", ".vb", ".vbs"}

FILE_TYPE_CATEGORIES(ext) ==
    CASE ext \in IMAGE_EXT -> "image"
      [] ext \in DOCUMENT_EXT -> "document"
      [] ext \in VIDEO_EXT -> "video"
      [] ext \in AUDIO_EXT -> "audio"
      [] ext \in ARCHIVE_EXT -> "archive"
      [] ext \in CODE_EXT -> "code"
      [] OTHER -> "other"

\* --------------------------------------------------------------- the users
\* The users collection belongs to the authentication collaborator; the core
\* only reads it.
Users == {"u1", "u2", "u3"}

users == [u \in Users |->
            [user_id |-> u,
             email |-> CASE u = "u1" -> "e1" [] u = "u2" -> "e2" [] OTHER -> "e3"]]

Emails == {"e1", "e2", "e3", "nobody"}

\* database.py get_user_by_email: the set holding the matching user record,
\* empty for None.
get_user_by_email(email) == {users[u] : u \in {x \in Users : users[x].email = email}}

\* ------------------------------------------------------------------ strings
\* upper-case atoms and their lower-case forms (str.lower)
Lower1(c) ==
    CASE c = "R" -> "r"
      [] c = ".PNG" -> ".png"
      [] c = ".PDF" -> ".pdf"
      [] c = ".EXE" -> ".exe"
      [] OTHER -> c

Lower(s) == [i \in 1..Len(s) |-> Lower1(s[i])]

\* extension atoms: a "." followed by letters
ExtAtoms == ALLOWED_EXTENSIONS \cup BLOCKED_EXTENSIONS
              \cup {".PNG", ".PDF", ".EXE", ".zzz"}

\* the atom left of an extension atom whose leading "." was stripped
Undot(c) ==
    CASE c = ".pdf" -> "pdf"
      [] c = ".exe" -> "exe"
      [] OTHER -> "ext"

\* pathlib Path(name).suffix: the last extension, none for a name that is
\* only a dot-name
Suffix(s) ==
    IF Len(s) >= 2 /\ s[Len(s)] \in ExtAtoms THEN s[Len(s)] ELSE ""

RECURSIVE LStrip(_, _)
LStrip(s, drop) ==
    IF s # <<>> /\ Head(s) \in drop THEN LStrip(Tail(s), drop) ELSE s

RECURSIVE RStrip(_, _)
RStrip(s, drop) ==
    IF s # <<>> /\ s[Len(s)] \in drop THEN RStrip(SubSeq(s, 1, Len(s) - 1), drop)
    ELSE s

\* str.strip(): leading and trailing whitespace removed
Strip(s) == RStrip(LStrip(s, {" "}), {" "})

\* werkzeug secure_filename: whitespace runs become "_", then leading and
\* trailing "._" characters are stripped (so a leading extension atom loses
\* its dot).
RECURSIVE JoinWords(_)
JoinWords(s) ==
    IF s = <<>> THEN <<>>
    ELSE IF Head(s) = " "
         THEN IF Len(s) >= 2 /\ s[2] = " " THEN JoinWords(Tail(s))
              ELSE <<"_">> \o JoinWords(Tail(s))
         ELSE <<Head(s)>> \o JoinWords(Tail(s))

secure_filename(name) ==
    LET j == JoinWords(Strip(name))
        t == RStrip(LStrip(j, {"_"}), {"_"})
    IN IF t # <<>> /\ Head(t) \in ExtAtoms
       THEN <<Undot(Head(t))>> \o Tail(t)
       ELSE t

\* position of the first "_" of s, 0 when there is none
RECURSIVE FirstUnderscore(_, _)
FirstUnderscore(s, i) ==
    IF i > Len(s) THEN 0
    ELSE IF s[i] = "_" THEN i ELSE FirstUnderscore(s, i + 1)

\* bucket_id.split('_', 1)
Split1(s) ==
    LET k == FirstUnderscore(s, 1)
    IN IF k = 0 THEN <<s>>
       ELSE <<SubSeq(s, 1, k - 1), SubSeq(s, k + 1, Len(s))>>

\* f"{user_id}_{bucket_name}"
BucketId(user_id, bucket_name) == <<user_id, "_">> \o bucket_name

\* f"{bucket_id}_{shared_with}"
\* a key that names the bucket only, the same for every grantee
KeyOfBucketOnly(bucket_id, user_id) == bucket_id

PermissionId(bucket_id, user_id) == bucket_id \o <<"_", user_id>>


\* -------------------------------------------------------------------- state
VARIABLES
    dirs,           \* bucket directories under UPLOADS_DIR: <<user_id, bucket_name>>
    disk,           \* stored payloads: the file paths that exist
    metadata,       \* FILE_METADATA_FILE: file_id -> Object record
    search_index,   \* SEARCH_INDEX_FILE: file_id -> SearchIndexEntry
    permissions,    \* PERMISSIONS_FILE: permission_id -> Permission record
    nextId,         \* the next uuid4 that upload draws
    now,            \* datetime.now(), in ticks
    procs,          \* the calls in progress, one frame per caller
    deleted,        \* the file ids whose delete_file returned success
    failures,       \* the writes of a JSON file that have failed so far
    calls           \* the calls concurrent callers have made so far

vars == <<dirs, disk, metadata, search_index, permissions, nextId, now, procs,
          deleted, failures, calls>>

\* the persistent world as one value
World == [dirs |-> dirs, disk |-> disk, metadata |-> metadata,
          search_index |-> search_index, permissions |-> permissions,
          nextId |-> nextId, now |-> now,
          \* the configuration, which no call changes
          allowed_extensions |-> ALLOWED_EXTENSIONS]

EmptyDict == <<>>

\* dict[key] = value
Put(d, k, v) == [x \in (DOMAIN d) \cup {k} |-> IF x = k THEN v ELSE d[x]]

\* del dict[key]
\* a removal that leaves the entry in place
KeepEntry(d, k) == d

Del(d, k) == [x \in (DOMAIN d) \ {k} |-> d[x]]

\* Config.UPLOADS_DIR / user_id / bucket_name / unique_filename
\* a path made of the bucket and the extension only, without the file_id
PathWithoutId(user_id, bucket_name, unique_filename) ==
    [user |-> user_id, bucket |-> bucket_name, name |-> <<0, unique_filename[2]>>]

FilePath(user_id, bucket_name, unique_filename) ==
    [user |-> user_id, bucket |-> bucket_name, name |-> unique_filename]

NoPath == FilePath("", <<>>, <<0, "">>)

NoFile == [file_id |-> 0, file_name |-> <<>>, stored_filename |-> <<0, "">>,
           file_type |-> "", size |-> 0, upload_date |-> 0, bucket_id |-> <<>>,
           bucket_name |-> <<>>, user_id |-> "", file_path |-> NoPath]

\* database.py get_user_buckets: the sub-directories of the user's directory
\* a listing that takes the directories of every user for the user's own
BucketsOfAnyUser(w, user_id) == {d[2] : d \in w.dirs}

db_get_user_buckets(w, user_id) == {d[2] : d \in {x \in w.dirs : x[1] = user_id}}

\* database.py get_permission: the set holding the record, empty for None
get_permission(perms, bucket_id, user_id) ==
    LET permission_id == PermissionId(bucket_id, user_id)
    IN IF permission_id \in DOMAIN perms THEN {perms[permission_id]} ELSE {}

\* database.py get_files_by_bucket, as the file ids in dict order
RECURSIVE SetToSeq(_)
SetToSeq(S) ==
    IF S = {} THEN <<>>
    ELSE LET m == CHOOSE x \in S : \A y \in S : x <= y
         IN <<m>> \o SetToSeq(S \ {m})

\* a scan that finds no file
NoFilesOfBucket(md, bucket_id) == <<>>

\* a scan that takes every file for a file of the bucket
FilesOfAnyBucket(md, bucket_id) == SetToSeq(DOMAIN md)

get_files_by_bucket(md, bucket_id) ==
    SetToSeq({f \in DOMAIN md : md[f].bucket_id = bucket_id})

\* database.py get_shared_buckets_for_user
get_shared_buckets_for_user(perms, user_id) ==
    {perms[k] : k \in {x \in DOMAIN perms : perms[x].shared_with = user_id}}

\* ------------------------------------------------------------ authorization
\* _check_bucket_access without its permission mapping: any record grants
\* any action
AccessByAnyRecord(perms, user_id, bucket_id, action) ==
    LET bucket_parts == Split1(bucket_id)
    IN IF Len(bucket_parts) # 2 THEN FALSE
       ELSE IF bucket_parts[1] = <<user_id>> THEN TRUE
       ELSE get_permission(perms, bucket_id, user_id) # {}

\* _check_bucket_access where a missing record does not return False
AccessWithoutRecord(perms, user_id, bucket_id, action) ==
    Len(Split1(bucket_id)) = 2

\* a check that lets only the owner in
AccessForOwnerOnly(perms, user_id, bucket_id, action) ==
    Len(Split1(bucket_id)) = 2 /\ Split1(bucket_id)[1] = <<user_id>>

\* storage.py StorageManager._check_bucket_access
_check_bucket_access(perms, user_id, bucket_id, action) ==
    LET bucket_parts == Split1(bucket_id)
        permission == get_permission(perms, bucket_id, user_id)
    IN IF Len(bucket_parts) # 2 THEN FALSE
       ELSE IF bucket_parts[1] = <<user_id>> THEN TRUE
       ELSE IF permission = {} THEN FALSE
       ELSE LET permission_level == (CHOOSE p \in permission : TRUE).permission_level
            IN CASE action = "view" -> permission_level \in {"view", "upload", "full"}
                 [] action = "upload" -> permission_level \in {"upload", "full"}
                 [] action = "full" -> permission_level = "full"
                 [] OTHER -> FALSE

\* permissions.py PermissionManager.check_permission_level
check_permission_level(perms, user_id, bucket_id) ==
    LET bucket_parts == Split1(bucket_id)
        permission == get_permission(perms, bucket_id, user_id)
    IN IF Len(bucket_parts) = 2 /\ bucket_parts[1] = <<user_id>> THEN "owner"
       ELSE IF permission # {}
            THEN (CHOOSE p \in permission : TRUE).permission_level
            ELSE "none"

\* can_perform_action with the upload level treated like full
UploadAllowsFull(perms, user_id, bucket_id, action) ==
    check_permission_level(perms, user_id, bucket_id) \in {"owner", "full", "upload"}
    \/ (check_permission_level(perms, user_id, bucket_id) = "view" /\ action = "view")

\* permissions.py PermissionManager.can_perform_action
can_perform_action(perms, user_id, bucket_id, action) ==
    LET permission_level == check_permission_level(perms, user_id, bucket_id)
    IN CASE permission_level = "owner" -> TRUE
         [] permission_level = "full" -> TRUE
         [] permission_level = "upload" -> action \in {"view", "upload"}
         [] permission_level = "view" -> action = "view"
         [] OTHER -> FALSE

\* a check that takes any record of the pair for sufficient
AccessAtAnyLevel(perms, user_id, bucket_id, required_permission) ==
    \/ (FirstUnderscore(bucket_id, 1) # 0
           /\ SubSeq(bucket_id, 1, FirstUnderscore(bucket_id, 1) - 1) = <<user_id>>)
    \/ get_permission(perms, bucket_id, user_id) # {}

\* auth.py AuthManager.check_bucket_access
check_bucket_access(perms, user_id, bucket_id, required_permission) ==
    LET k == FirstUnderscore(bucket_id, 1)
        \* bucket_id.split('_')[0]
        owner_id == SubSeq(bucket_id, 1, k - 1)
        permission == get_permission(perms, bucket_id, user_id)
    IN IF k = 0 THEN FALSE
       ELSE IF owner_id = <<user_id>> THEN TRUE
       ELSE IF permission = {} THEN FALSE
       ELSE LET permission_level == (CHOOSE p \in permission : TRUE).permission_level
            IN CASE required_permission = "view" ->
                      permission_level \in {"view", "upload", "full"}
                 [] required_permission = "upload" ->
                      permission_level \in {"upload", "full"}
                 [] required_permission = "full" -> permission_level = "full"
                 [] OTHER -> FALSE

\* --------------------------------------------------------------- validation
\* storage.py StorageManager._validate_bucket_name
NameChars == {"a", "b", "-", "_", "0"}

\* a validation that accepts every name
AcceptAnyName(bucket_name) == TRUE

_validate_bucket_name(bucket_name) ==
    IF bucket_name = <<>> \/ Len(bucket_name) < 1
       \/ Len(bucket_name) > MAX_BUCKET_NAME_LEN
    THEN FALSE
    ELSE \A i \in 1..Len(bucket_name) : bucket_name[i] \in NameChars

\* a validation that does not look at the declared length
ValidateWithoutSize(allowed_extensions, filename, content_length) ==
    LET file_ext == Lower1(Suffix(secure_filename(filename)))
    IN IF filename = <<>> THEN "No file provided"
       ELSE IF allowed_extensions # {} /\ file_ext \notin allowed_extensions
            THEN "File type not allowed"
       ELSE IF file_ext \in BLOCKED_EXTENSIONS
            THEN "This file type is not allowed for security reasons"
       ELSE ""

\* a validation that does not look at the blocked extensions
ValidateWithoutBlocked(allowed_extensions, filename, content_length) ==
    LET file_ext == Lower1(Suffix(secure_filename(filename)))
    IN IF filename = <<>> THEN "No file provided"
       ELSE IF content_length # 0 /\ content_length > MAX_FILE_SIZE
            THEN "File too large"
       ELSE IF allowed_extensions # {} /\ file_ext \notin allowed_extensions
            THEN "File type not allowed"
       ELSE ""

\* storage.py StorageManager._validate_file: "" for valid, else the message;
\* allowed_extensions is Config.ALLOWED_EXTENSIONS
_validate_file(allowed_extensions, filename, content_length) ==
    LET file_ext == Lower1(Suffix(secure_filename(filename)))
    IN IF filename = <<>> THEN "No file provided"
       ELSE IF content_length # 0 /\ content_length > MAX_FILE_SIZE
            THEN "File too large"
       ELSE IF allowed_extensions # {} /\ file_ext \notin allowed_extensions
            THEN "File type not allowed"
       ELSE IF file_ext \in BLOCKED_EXTENSIONS
            THEN "This file type is not allowed for security reasons"
       ELSE ""

\* a derivation that looks the extension up as written, not lower-cased
FileTypeCaseSensitive(filename) == FILE_TYPE_CATEGORIES(Suffix(filename))

\* storage.py StorageManager._get_file_type
_get_file_type(filename) == FILE_TYPE_CATEGORIES(Lower1(Suffix(filename)))


\* the filters of a search; "" (or the empty string <<>>) for a filter not given
NoFilters == [file_type |-> "", size_category |-> "", date_range |-> "",
              bucket_id |-> <<>>]

\* ------------------------------------------------------------ a call's frame
\* The local variables of one call of a manager method.  pc names the next
\* access to the shared files or the file system the call will make.
Frame(op, user_id) ==
    [pc |-> "start", op |-> op, user_id |-> user_id,
     bucket_name |-> <<>>, bucket_id |-> <<>>,
     filename |-> <<>>, content_length |-> 0, size |-> 0,
     file_id |-> 0, new_name |-> <<>>, email |-> "", level |-> "",
     query |-> <<>>, filters |-> NoFilters,
     file_metadata |-> NoFile, md |-> EmptyDict, si |-> EmptyDict,
     pm |-> EmptyDict, bk |-> {}, success1 |-> FALSE, todo |-> <<>>,
     ok |-> FALSE, msg |-> "", path |-> NoPath, results |-> <<>>,
     search_metadata |-> EmptyDict]

Idle == [Frame("none", "") EXCEPT !.pc = "done"]

\* return (success, message): the frame keeps only the call and its outcome
Return(w, l, ok, msg) ==
    [w |-> w,
     l |-> [l EXCEPT !.pc = "done", !.ok = ok, !.msg = msg,
                     !.md = EmptyDict, !.si = EmptyDict, !.pm = EmptyDict,
                     !.bk = {}, !.success1 = FALSE, !.todo = <<>>]]

Goto(w, l, pc) == [w |-> w, l |-> [l EXCEPT !.pc = pc]]

\* database.py Database._write_json: the file after the write.  "ok": the
\* data is written; "fail": open() raised, the file is untouched; "trunc":
\* open() truncated the file and the dump raised, so that _read_json then
\* gets a JSONDecodeError and returns {}.
_write_json(old, data, o) ==
    CASE o = "ok" -> data
      [] o = "fail" -> old
      [] OTHER -> EmptyDict

\* the steps at which an I/O failure can strike
WritePcs == {"u_write_md", "u_write_si", "dfm_write_md", "dfm_write_si",
             "r_write_md", "r_write_si", "s_add_write", "s_upd_write",
             "n_write"}

\* --------------------------------------------------- storage.py create_bucket
CreateBucketStep(w, l, o) ==
    CASE l.pc = "start" ->
           IF ~_validate_bucket_name(l.bucket_name)
           THEN Return(w, l, FALSE, "Invalid bucket name")
           ELSE IF l.bucket_name \in db_get_user_buckets(w, l.user_id)
           THEN Return(w, l, FALSE, "Bucket already exists")
           ELSE Goto(w, l, "c_mkdir")
      [] l.pc = "c_mkdir" ->
           \* database.py create_bucket_metadata
           Return([w EXCEPT !.dirs = @ \cup {<<l.user_id, l.bucket_name>>}],
                  [l EXCEPT !.bucket_id = BucketId(l.user_id, l.bucket_name)],
                  TRUE, "Bucket created successfully")

\* ------------------------------------------- database.py delete_file_metadata
\* Shared by delete_file and by the loop of delete_bucket_metadata; l.file_id
\* is the record being deleted.
AfterDeleteFileMetadata(w, l) ==
    IF l.op = "delete_file" THEN Return(w, l, TRUE, "File deleted successfully")
    ELSE IF l.todo = <<>> THEN Return(w, l, TRUE, "Bucket deleted successfully")
    ELSE [w |-> w, l |-> [l EXCEPT !.pc = "dfm_read_md", !.file_id = Head(l.todo),
                                   !.todo = Tail(l.todo)]]

\* delete_file_metadata's removal of the index entry, and one that forgets it
KeepIndexEntry(si, file_id) == si

DelIndexEntry(si, file_id) == IF file_id \in DOMAIN si THEN Del(si, file_id) ELSE si

DeleteFileMetadataStep(w, l, o) ==
    CASE l.pc = "dfm_read_md" ->
           [w |-> w, l |-> [l EXCEPT !.pc = "dfm_read_si", !.md = w.metadata]]
      [] l.pc = "dfm_read_si" ->
           [w |-> w,
            l |-> [l EXCEPT !.pc = "dfm_write_md",
                            !.md = IF l.file_id \in DOMAIN l.md
                                   THEN Del(l.md, l.file_id) ELSE l.md,
                            !.si = DelIndexEntry(w.search_index, l.file_id)]]
      [] l.pc = "dfm_write_md" ->
           [w |-> [w EXCEPT !.metadata = _write_json(@, l.md, o)],
            l |-> [l EXCEPT !.pc = "dfm_write_si", !.success1 = (o = "ok")]]
      [] l.pc = "dfm_write_si" ->
           \* the callers ignore the returned success1 and success2
           AfterDeleteFileMetadata(
               [w EXCEPT !.search_index = _write_json(@, l.si, o)], l)

\* ----------------------------------------------------- storage.py upload_file
UploadStep(w, l, o) ==
    CASE l.pc = "start" ->
           IF l.filename = <<>> THEN Return(w, l, FALSE, "No file provided")
           ELSE IF l.bucket_name \notin db_get_user_buckets(w, l.user_id)
           THEN Return(w, l, FALSE, "Bucket not found or access denied")
           ELSE IF _validate_file(w.allowed_extensions, l.filename,
                                  l.content_length) # ""
           THEN Return(w, l, FALSE, _validate_file(w.allowed_extensions, l.filename,
                                                   l.content_length))
           ELSE [w |-> [w EXCEPT !.nextId = @ + 1],
                 l |-> [l EXCEPT !.pc = "u_mkdir", !.file_id = w.nextId]]
      [] l.pc = "u_mkdir" ->
           [w |-> [w EXCEPT !.dirs = @ \cup {<<l.user_id, l.bucket_name>>}],
            l |-> [l EXCEPT !.pc = "u_save"]]
      [] l.pc = "u_save" ->
           LET original_filename == secure_filename(l.filename)
               unique_filename == <<l.file_id, Suffix(original_filename)>>
               file_path == FilePath(l.user_id, l.bucket_name, unique_filename)
               file_metadata ==
                   [file_id |-> l.file_id,
                    file_name |-> original_filename,
                    stored_filename |-> unique_filename,
                    file_type |-> _get_file_type(original_filename),
                    size |-> l.size,
                    upload_date |-> w.now,
                    bucket_id |-> BucketId(l.user_id, l.bucket_name),
                    bucket_name |-> l.bucket_name,
                    user_id |-> l.user_id,
                    file_path |-> file_path]
           IN IF <<l.user_id, l.bucket_name>> \notin w.dirs
              THEN Return(w, l, FALSE, "Failed to upload file")
              ELSE [w |-> [w EXCEPT !.disk = @ \cup {file_path}],
                    l |-> [l EXCEPT !.pc = "u_read_md",
                                    !.file_metadata = file_metadata]]
      \* database.py add_file_metadata
      [] l.pc = "u_read_md" ->
           [w |-> w, l |-> [l EXCEPT !.pc = "u_read_si", !.md = w.metadata]]
      [] l.pc = "u_read_si" ->
           LET f == l.file_metadata
               search_data == [file_name |-> f.file_name, file_type |-> f.file_type,
                               size |-> f.size, upload_date |-> f.upload_date,
                               bucket_id |-> f.bucket_id, user_id |-> f.user_id]
           IN [w |-> w,
               l |-> [l EXCEPT !.pc = "u_write_md",
                               !.md = Put(l.md, f.file_id, f),
                               !.si = Put(w.search_index, f.file_id, search_data)]]
      [] l.pc = "u_write_md" ->
           [w |-> [w EXCEPT !.metadata = _write_json(@, l.md, o)],
            l |-> [l EXCEPT !.pc = "u_write_si", !.success1 = (o = "ok")]]
      [] l.pc = "u_write_si" ->
           LET w2 == [w EXCEPT !.search_index = _write_json(@, l.si, o)]
           IN IF l.success1 /\ o = "ok"
              THEN Return(w2, l, TRUE, "File uploaded successfully")
              ELSE Goto(w2, l, "u_cleanup")
      [] l.pc = "u_cleanup" ->
           Return([w EXCEPT !.disk = @ \ {l.file_metadata.file_path}],
                  l, FALSE, "Failed to save file metadata")


\* --------------------------------------------------- storage.py download_file
DownloadStep(w, l, o) ==
    CASE l.pc = "start" ->
           \* database.py get_file_metadata
           IF l.file_id \notin DOMAIN w.metadata
           THEN Return(w, l, FALSE, "File not found")
           ELSE [w |-> w, l |-> [l EXCEPT !.pc = "g_access",
                                          !.file_metadata = w.metadata[l.file_id]]]
      [] l.pc = "g_access" ->
           IF ~_check_bucket_access(w.permissions, l.user_id,
                                    l.file_metadata.bucket_id, "view")
           THEN Return(w, l, FALSE, "Access denied")
           ELSE Goto(w, l, "g_exists")
      [] l.pc = "g_exists" ->
           IF l.file_metadata.file_path \notin w.disk
           THEN Return(w, l, FALSE, "File not found on disk")
           ELSE Return(w, [l EXCEPT !.path = l.file_metadata.file_path],
                       TRUE, "File found")

\* ----------------------------------------------------- storage.py delete_file
DeleteFileStep(w, l, o) ==
    CASE l.pc = "start" ->
           IF l.file_id \notin DOMAIN w.metadata
           THEN Return(w, l, FALSE, "File not found")
           ELSE [w |-> w, l |-> [l EXCEPT !.pc = "d_access",
                                          !.file_metadata = w.metadata[l.file_id]]]
      [] l.pc = "d_access" ->
           IF ~_check_bucket_access(w.permissions, l.user_id,
                                    l.file_metadata.bucket_id, "full")
           THEN Return(w, l, FALSE, "Insufficient permissions to delete file")
           ELSE Goto(w, l, "d_unlink")
      [] l.pc = "d_unlink" ->
           [w |-> [w EXCEPT !.disk = @ \ {l.file_metadata.file_path}],
            l |-> [l EXCEPT !.pc = "dfm_read_md"]]
      [] OTHER -> DeleteFileMetadataStep(w, l, o)

\* ----------------------------------------------------- storage.py rename_file
\* rename_file that leaves the search index alone
RenameMetadataOnly(si, file_id, name) == si

\* rename_file that gives the name to every entry of the search index
RenameEveryEntry(si, file_id, name) ==
    [f \in DOMAIN si |-> [si[f] EXCEPT !.file_name = name]]

\* the search index after rename_file's update of it

RenameInIndex(si, file_id, name) ==
    IF file_id \in DOMAIN si
    THEN [si EXCEPT ![file_id] = [@ EXCEPT !.file_name = name]]
    ELSE si

RenameFileStep(w, l, o) ==
    CASE l.pc = "start" ->
           IF l.file_id \notin DOMAIN w.metadata
           THEN Return(w, l, FALSE, "File not found")
           ELSE [w |-> w, l |-> [l EXCEPT !.pc = "r_access",
                                          !.file_metadata = w.metadata[l.file_id]]]
      [] l.pc = "r_access" ->
           IF ~_check_bucket_access(w.permissions, l.user_id,
                                    l.file_metadata.bucket_id, "full")
           THEN Return(w, l, FALSE, "Insufficient permissions to rename file")
           ELSE IF l.new_name = <<>> \/ Len(Strip(l.new_name)) = 0
           THEN Return(w, l, FALSE, "Invalid file name")
           ELSE Goto(w, l, "r_read_md")
      [] l.pc = "r_read_md" ->
           [w |-> w, l |-> [l EXCEPT !.pc = "r_read_si", !.md = w.metadata]]
      [] l.pc = "r_read_si" ->
           [w |-> w,
            l |-> [l EXCEPT !.pc = "r_write_md",
                            !.md = IF l.file_id \in DOMAIN l.md
                                   THEN [l.md EXCEPT ![l.file_id] =
                                           [@ EXCEPT !.file_name = Strip(l.new_name)]]
                                   ELSE l.md,
                            !.si = RenameInIndex(w.search_index, l.file_id,
                                                 Strip(l.new_name))]]
      [] l.pc = "r_write_md" ->
           [w |-> [w EXCEPT !.metadata = _write_json(@, l.md, o)],
            l |-> [l EXCEPT !.pc = "r_write_si", !.success1 = (o = "ok")]]
      [] l.pc = "r_write_si" ->
           LET w2 == [w EXCEPT !.search_index = _write_json(@, l.si, o)]
           IN IF l.success1 /\ o = "ok"
              THEN Return(w2, l, TRUE, "File renamed successfully")
              ELSE Return(w2, l, FALSE, "Failed to update file name")

\* --------------------------------------------------- storage.py delete_bucket
\* an rmtree that takes the directories of that name of every user
RmTreeOfAnyUser(w, user_id, bucket_name) ==
    [w EXCEPT !.dirs = {d \in @ : d[2] # bucket_name},
              !.disk = {p \in @ : p.bucket # bucket_name}]

\* shutil.rmtree(bucket_path): the directory and every payload under it
RmTree(w, user_id, bucket_name) ==
    [w EXCEPT !.dirs = @ \ {<<user_id, bucket_name>>},
              !.disk = {p \in @ : ~(p.user = user_id /\ p.bucket = bucket_name)}]

DeleteBucketStep(w, l, o) ==
    CASE l.pc = "start" ->
           IF l.bucket_name \notin db_get_user_buckets(w, l.user_id)
           THEN Return(w, l, FALSE, "Bucket not found or access denied")
           ELSE Goto(w, l, "b_rmtree")
      [] l.pc = "b_rmtree" ->
           [w |-> RmTree(w, l.user_id, l.bucket_name),
            l |-> [l EXCEPT !.pc = "b_list"]]
      [] l.pc = "b_list" ->
           \* database.py delete_bucket_metadata: get_files_by_bucket, then
           \* delete_file_metadata for each
           AfterDeleteFileMetadata(w,
               [l EXCEPT !.todo = get_files_by_bucket(
                                      w.metadata, BucketId(l.user_id, l.bucket_name))])
      [] OTHER -> DeleteFileMetadataStep(w, l, o)

\* --------------------------------------------------------- app.py delete_bucket
\* the route DELETE /api/buckets/<bucket_id>: the bucket name is cut from the
\* bucket_id, whose prefix must be the caller
ApiDeleteBucketStep(w, l, o) ==
    CASE l.pc = "start" ->
           IF Len(Split1(l.bucket_id)) # 2 \/ Split1(l.bucket_id)[1] # <<l.user_id>>
           THEN Return(w, l, FALSE, "You can only delete your own buckets")
           ELSE [w |-> w,
                 l |-> [l EXCEPT !.pc = "b_start",
                                 !.bucket_name = Split1(l.bucket_id)[2]]]
      [] l.pc = "b_start" -> DeleteBucketStep(w, [l EXCEPT !.pc = "start"], o)
      [] OTHER -> DeleteBucketStep(w, l, o)

\* ------------------------------------------------ storage.py get_user_buckets
\* the elements of a set in the order iterdir() happens to give them
RECURSIVE ListOf(_)
ListOf(S) ==
    IF S = {} THEN <<>>
    ELSE LET x == CHOOSE y \in S : TRUE IN <<x>> \o ListOf(S \ {x})

\* sum(f.get('size', 0) for f in files)
RECURSIVE TotalSize(_, _)
TotalSize(md, files) ==
    IF files = <<>> THEN 0 ELSE md[Head(files)].size + TotalSize(md, Tail(files))

\* the entry of one bucket: files from the scan of the metadata md,
\* is_shared from the permissions pm
BucketInfo(md, pm, user_id, bucket_name) ==
    LET bucket_id == BucketId(user_id, bucket_name)
        files == get_files_by_bucket(md, bucket_id)
    IN [bucket_id |-> bucket_id, bucket_name |-> bucket_name,
        file_count |-> Len(files), total_size |-> TotalSize(md, files),
        is_shared |-> \E k \in DOMAIN pm : pm[k].bucket_id = bucket_id]

GetUserBucketsStep(w, l, o) ==
    CASE l.pc = "start" ->
           LET names == ListOf(db_get_user_buckets(w, l.user_id))
           IN IF names = <<>>
              THEN Return(w, l, TRUE, "Buckets retrieved successfully")
              ELSE [w |-> w, l |-> [l EXCEPT !.pc = "l_files", !.todo = names]]
      [] l.pc = "l_files" ->
           [w |-> w, l |-> [l EXCEPT !.pc = "l_perms", !.md = w.metadata]]
      [] l.pc = "l_perms" ->
           LET l2 == [l EXCEPT !.results = Append(@, BucketInfo(l.md, w.permissions,
                                                   l.user_id, Head(l.todo))),
                               !.todo = Tail(@)]
           IN IF l2.todo = <<>>
              THEN Return(w, l2, TRUE, "Buckets retrieved successfully")
              ELSE [w |-> w, l |-> [l2 EXCEPT !.pc = "l_files"]]


\* ------------------------------------------------ permissions.py share_bucket
PermissionRecord(bucket_id, owner_id, shared_with, permission_level, t) ==
    [bucket_id |-> bucket_id, owner |-> owner_id, shared_with |-> shared_with,
     permission_level |-> permission_level, created_date |-> t]

\* the user_id of the user with that email ("" when get_user_by_email is None)
SharedUserId(email) ==
    IF get_user_by_email(email) = {} THEN ""
    ELSE (CHOOSE u \in get_user_by_email(email) : TRUE).user_id

\* a prefix check that takes every caller for the owner
AnyoneOwns(bucket_id, owner_id) == TRUE

\* "bucket belongs to owner": the check on the bucket_id prefix
BucketBelongsTo(bucket_id, owner_id) ==
    Len(Split1(bucket_id)) = 2 /\ Split1(bucket_id)[1] = <<owner_id>>

\* an update that leaves the level as it was
KeepLevel(pm, permission_id, permission_level) == pm

\* permissions[permission_id]['permission_level'] = permission_level
SetLevel(pm, permission_id, permission_level) ==
    [pm EXCEPT ![permission_id] = [@ EXCEPT !.permission_level = permission_level]]

\* database.py update_permission, from its read on
UpdatePermissionStep(w, l, o, okmsg) ==
    CASE l.pc = "s_upd_read" ->
           LET permission_id == PermissionId(l.bucket_id, SharedUserId(l.email))
           IN IF permission_id \in DOMAIN w.permissions
              THEN [w |-> w,
                    l |-> [l EXCEPT !.pc = "s_upd_write",
                                    !.pm = SetLevel(w.permissions, permission_id,
                                                    l.level)]]
              ELSE Return(w, l, FALSE, "Failed to update permission")
      [] l.pc = "s_upd_write" ->
           LET w2 == [w EXCEPT !.permissions = _write_json(@, l.pm, o)]
           IN IF o = "ok" THEN Return(w2, l, TRUE, okmsg)
              ELSE Return(w2, l, FALSE, "Failed to update permission")

ShareBucketStep(w, l, o) ==
    CASE l.pc = "start" ->
           IF l.level \notin PERMISSION_LEVELS
           THEN Return(w, l, FALSE, "Invalid permission level")
           ELSE IF ~BucketBelongsTo(l.bucket_id, l.user_id)
           THEN Return(w, l, FALSE, "You can only share your own buckets")
           ELSE IF get_user_by_email(l.email) = {}
           THEN Return(w, l, FALSE, "User not found")
           ELSE IF SharedUserId(l.email) = l.user_id
           THEN Return(w, l, FALSE, "Cannot share bucket with yourself")
           ELSE IF get_permission(w.permissions, l.bucket_id, SharedUserId(l.email)) # {}
           THEN Goto(w, l, "s_upd_read")
           ELSE Goto(w, l, "s_add_read")
      \* database.py add_permission
      [] l.pc = "s_add_read" ->
           [w |-> w,
            l |-> [l EXCEPT !.pc = "s_add_write",
                            !.pm = Put(w.permissions,
                                       PermissionId(l.bucket_id, SharedUserId(l.email)),
                                       PermissionRecord(l.bucket_id, l.user_id,
                                                        SharedUserId(l.email),
                                                        l.level, w.now))]]
      [] l.pc = "s_add_write" ->
           LET w2 == [w EXCEPT !.permissions = _write_json(@, l.pm, o)]
           IN IF o = "ok" THEN Return(w2, l, TRUE, "Bucket shared")
              ELSE Return(w2, l, FALSE, "Failed to share bucket")
      [] OTHER -> UpdatePermissionStep(w, l, o, "Permission updated")

\* ---------------------------------------------- permissions.py unshare_bucket
UnshareBucketStep(w, l, o) ==
    CASE l.pc = "start" ->
           IF ~BucketBelongsTo(l.bucket_id, l.user_id)
           THEN Return(w, l, FALSE,
                       "You can only manage permissions for your own buckets")
           ELSE IF get_user_by_email(l.email) = {}
           THEN Return(w, l, FALSE, "User not found")
           ELSE Goto(w, l, "n_read")
      \* database.py delete_permission
      [] l.pc = "n_read" ->
           LET permission_id == PermissionId(l.bucket_id, SharedUserId(l.email))
           IN IF permission_id \in DOMAIN w.permissions
              THEN [w |-> w, l |-> [l EXCEPT !.pc = "n_write",
                                             !.pm = Del(w.permissions, permission_id)]]
              ELSE Return(w, l, FALSE, "Failed to remove bucket access")
      [] l.pc = "n_write" ->
           LET w2 == [w EXCEPT !.permissions = _write_json(@, l.pm, o)]
           IN IF o = "ok" THEN Return(w2, l, TRUE, "Bucket access removed successfully")
              ELSE Return(w2, l, FALSE, "Failed to remove bucket access")

\* ------------------------------------ permissions.py update_bucket_permission
UpdateBucketPermissionStep(w, l, o) ==
    CASE l.pc = "start" ->
           IF l.level \notin PERMISSION_LEVELS
           THEN Return(w, l, FALSE, "Invalid permission level")
           ELSE IF ~BucketBelongsTo(l.bucket_id, l.user_id)
           THEN Return(w, l, FALSE,
                       "You can only manage permissions for your own buckets")
           ELSE IF get_user_by_email(l.email) = {}
           THEN Return(w, l, FALSE, "User not found")
           ELSE Goto(w, l, "s_upd_read")
      [] OTHER -> UpdatePermissionStep(w, l, o, "Permission updated")


\* ---------------------------------------------------------------- search
SMALL_LIMIT == 1048576
MEDIUM_LIMIT == 10485760

\* a classification that takes a size equal to a limit for the category below
SizeCategoryInclusive(size) ==
    IF size <= SMALL_LIMIT THEN "small"
    ELSE IF size <= MEDIUM_LIMIT THEN "medium"
    ELSE "large"

\* config.py Config.get_file_size_category
get_file_size_category(size) ==
    IF size < SMALL_LIMIT THEN "small"
    ELSE IF size < MEDIUM_LIMIT THEN "medium"
    ELSE "large"

\* datetime.date() and timedelta.days, time being counted in ticks
DateOf(t) == t \div TicksPerDay
DaysOf(delta) == delta \div TicksPerDay

\* database.py Database._check_date_range
_check_date_range(upload_date, date_range, t) ==
    CASE date_range = "today" -> DateOf(upload_date) = DateOf(t)
      [] date_range = "week" -> DaysOf(t - upload_date) <= 7
      [] date_range = "month" -> DaysOf(t - upload_date) <= 30
      [] date_range = "year" -> DaysOf(t - upload_date) <= 365
      [] OTHER -> TRUE

\* filters of which only file_type is applied
ApplyFileTypeOnly(search_data, filters, t) ==
    filters.file_type = "" \/ search_data.file_type = filters.file_type

\* database.py Database._apply_filters
_apply_filters(search_data, filters, t) ==
    IF filters.file_type # "" /\ search_data.file_type # filters.file_type
    THEN FALSE
    ELSE IF filters.size_category # ""
            /\ get_file_size_category(search_data.size) # filters.size_category
    THEN FALSE
    ELSE IF filters.date_range # ""
            /\ ~_check_date_range(search_data.upload_date, filters.date_range, t)
    THEN FALSE
    ELSE IF filters.bucket_id # <<>> /\ search_data.bucket_id # filters.bucket_id
    THEN FALSE
    ELSE TRUE

\* str.startswith and the "in" of two strings
StartsWith(s, q) == Len(q) <= Len(s) /\ SubSeq(s, 1, Len(q)) = q

Contains(s, q) ==
    \E i \in 1..(Len(s) + 1) : i + Len(q) - 1 <= Len(s)
                               /\ SubSeq(s, i, i + Len(q) - 1) = q

\* database.py Database._get_accessible_bucket_ids, from the directory listing
\* bk and the permissions file read pm
_get_accessible_bucket_ids(bk, pm, user_id) ==
    {BucketId(user_id, b) : b \in bk}
       \cup {perm.bucket_id : perm \in get_shared_buckets_for_user(pm, user_id)}

\* one result of database.py search_files, enriched by search.py
\* _enrich_search_results
SearchResult(si, md, file_id, t) ==
    LET search_data == si[file_id]
        bucket_parts == Split1(search_data.bucket_id)
    IN [index_key |-> file_id,
        file_id |-> IF file_id \in DOMAIN md THEN md[file_id].file_id ELSE 0,
        file_name |-> search_data.file_name,
        file_type |-> search_data.file_type,
        size |-> search_data.size,
        upload_date |-> search_data.upload_date,
        bucket_id |-> search_data.bucket_id,
        user_id |-> search_data.user_id,
        size_category |-> get_file_size_category(search_data.size),
        days_ago |-> DaysOf(t - search_data.upload_date),
        is_own_file |-> Len(bucket_parts) = 2
                        /\ bucket_parts[1] = <<search_data.user_id>>]

\* search_files without the check of the accessible buckets
SearchEveryBucket(si, bk, pm, query, user_id, filters, t) ==
    SetToSeq({f \in DOMAIN si :
                   /\ (query = <<>> \/ Contains(Lower(si[f].file_name), Lower(query)))
                   /\ _apply_filters(si[f], filters, t)})

\* database.py Database.search_files: the matching file ids in dict order
db_search_files(si, bk, pm, query, user_id, filters, t) ==
    LET accessible_bucket_ids == _get_accessible_bucket_ids(bk, pm, user_id)
    IN SetToSeq({f \in DOMAIN si :
                   /\ si[f].bucket_id \in accessible_bucket_ids
                   /\ (query = <<>> \/ Contains(Lower(si[f].file_name), Lower(query)))
                   /\ _apply_filters(si[f], filters, t)})

\* a score in which a name that starts with the query counts as one that
\* only contains it
ScorePrefixAsContains(file_data, query) ==
    LET filename == Lower(file_data.file_name)
        query_lower == Lower(query)
    IN (IF query_lower = filename THEN 100
        ELSE IF Contains(filename, query_lower) THEN 25
        ELSE 0)
       + (IF file_data.days_ago <= 7 THEN 10
          ELSE IF file_data.days_ago <= 30 THEN 5 ELSE 0)
       + (IF file_data.is_own_file THEN 5 ELSE 0)

\* search.py calculate_relevance_score
calculate_relevance_score(file_data, query) ==
    LET filename == Lower(file_data.file_name)
        query_lower == Lower(query)
    IN (IF query_lower = filename THEN 100
        ELSE IF StartsWith(filename, query_lower) THEN 50
        ELSE IF Contains(filename, query_lower) THEN 25
        ELSE 0)
       + (IF file_data.days_ago <= 7 THEN 10
          ELSE IF file_data.days_ago <= 30 THEN 5 ELSE 0)
       + (IF file_data.is_own_file THEN 5 ELSE 0)

\* the sort key of search.py _sort_search_results
SortKey(file_data, query) ==
    IF query = <<>> THEN <<0, file_data.upload_date>>
    ELSE <<calculate_relevance_score(file_data, query), file_data.upload_date>>

KeyLess(a, b) == a[1] < b[1] \/ (a[1] = b[1] /\ a[2] < b[2])

\* sorted(..., reverse=True): descending, equal keys keep their order
RECURSIVE InsertDesc(_, _, _)
InsertDesc(sorted, x, query) ==
    IF sorted = <<>> THEN <<x>>
    ELSE IF KeyLess(SortKey(Head(sorted), query), SortKey(x, query))
         THEN <<x>> \o sorted
         ELSE <<Head(sorted)>> \o InsertDesc(Tail(sorted), x, query)

RECURSIVE _sort_search_results(_, _, _)
_sort_search_results(results, query, acc) ==
    IF results = <<>> THEN acc
    ELSE _sort_search_results(Tail(results), query,
                              InsertDesc(acc, Head(results), query))

RECURSIVE SumOfSizes(_)
SumOfSizes(results) ==
    IF results = <<>> THEN 0 ELSE Head(results).size + SumOfSizes(Tail(results))

\* the number of results of file type t
CountOfType(results, t) ==
    Cardinality({i \in 1..Len(results) : results[i].file_type = t})

\* max(file_types, key=file_types.get): the type of the first result whose
\* type is as frequent as any, the dict being in order of first appearance
MostCommonType(results) ==
    LET best == CHOOSE i \in 1..Len(results) :
                   /\ \A j \in 1..Len(results) :
                         CountOfType(results, results[j].file_type)
                            <= CountOfType(results, results[i].file_type)
                   /\ \A j \in 1..(i - 1) :
                         CountOfType(results, results[j].file_type)
                            < CountOfType(results, results[i].file_type)
    IN results[best].file_type

\* the results above which date and bucket filters are suggested
MANY_RESULTS == 20

\* search.py SearchEngine._generate_search_suggestions
_generate_search_suggestions(results, query) ==
    LET guidance == IF results = <<>> /\ query # <<>>
                    THEN <<"Try searching with fewer characters",
                           "Check spelling of your search term",
                           "Try searching without filters">>
                    ELSE <<>>
        by_type == IF results # <<>>
                      /\ Cardinality({results[i].file_type : i \in 1..Len(results)}) > 1
                   THEN <<<<"Filter by files of type", MostCommonType(results)>>>>
                   ELSE <<>>
        by_date == IF results # <<>> /\ Len(results) > MANY_RESULTS
                   THEN <<"Use date filters to find recent files",
                          "Filter by specific buckets to reduce results">>
                   ELSE <<>>
        suggestions == guidance \o by_type \o by_date
    IN SubSeq(suggestions, 1, IF Len(suggestions) < 3 THEN Len(suggestions) ELSE 3)

\* search.py SearchEngine._generate_search_metadata: the counts of the
\* results, the size breakdown counting each result under its size_category,
\* and the suggestions
_generate_search_metadata(results, query) ==
    IF results = <<>>
    THEN [total_files |-> 0, total_size |-> 0, size_breakdown |-> EmptyDict,
          search_suggestions |-> <<>>]
    ELSE [total_files |-> Len(results),
          total_size |-> SumOfSizes(results),
          size_breakdown |->
             [c \in {"small", "medium", "large"} |->
                Cardinality({i \in 1..Len(results) : results[i].size_category = c})],
          search_suggestions |-> _generate_search_suggestions(results, query)]

\* search.py SearchEngine.search_files
SearchStep(w, l, o) ==
    CASE l.pc = "start" ->
           [w |-> w, l |-> [l EXCEPT !.pc = "q_read_md", !.si = w.search_index]]
      [] l.pc = "q_read_md" ->
           [w |-> w, l |-> [l EXCEPT !.pc = "q_buckets", !.md = w.metadata]]
      [] l.pc = "q_buckets" ->
           [w |-> w,
            l |-> [l EXCEPT !.pc = "q_perms",
                            !.bk = db_get_user_buckets(w, l.user_id)]]
      [] l.pc = "q_perms" ->
           LET ids == db_search_files(l.si, l.bk, w.permissions, l.query,
                                      l.user_id, l.filters, w.now)
               results == [i \in 1..Len(ids) |->
                             SearchResult(l.si, l.md, ids[i], w.now)]
               sorted_results == _sort_search_results(results, l.query, <<>>)
           IN Return(w, [l EXCEPT !.results = sorted_results,
                                  !.search_metadata =
                                     _generate_search_metadata(sorted_results, l.query)],
                     TRUE, "")


\* --------------------------------------------------------- app.py search_files
\* a user id as the text of a query, and the text of a query as a user id:
\* the id of the user it spells, else an id no directory and no permission
\* record is kept under
AsText(user_id) == <<user_id>>

AsUserId(text) == IF Len(text) = 1 /\ text[1] \in Users THEN text[1] ELSE ""

\* search_engine.search_files(query, user_id, filters): the parameters
\* (user_id, query) of SearchEngine.search_files as the positional arguments
\* of the route bind them
BindByPosition(user_id, query) ==
    [user_id |-> AsUserId(query), query |-> AsText(user_id)]

\* the route GET /api/search: l.user_id is the authenticated caller
\* (auth_manager.get_current_user_id()), l.query the request's query text
ApiSearchStep(w, l, o) ==
    LET bound == BindByPosition(l.user_id, l.query)
        e == SearchStep(w, [l EXCEPT !.user_id = bound.user_id,
                                     !.query = bound.query], o)
    IN [w |-> e.w, l |-> [e.l EXCEPT !.user_id = l.user_id, !.query = l.query]]

\* ------------------------------------------------------------ running a call
\* one step of the call in frame l on world w, the I/O at that step having
\* outcome o
Step(w, l, o) ==
    CASE l.op = "create_bucket" -> CreateBucketStep(w, l, o)
      [] l.op = "delete_bucket" -> DeleteBucketStep(w, l, o)
      [] l.op = "upload_file" -> UploadStep(w, l, o)
      [] l.op = "download_file" -> DownloadStep(w, l, o)
      [] l.op = "delete_file" -> DeleteFileStep(w, l, o)
      [] l.op = "rename_file" -> RenameFileStep(w, l, o)
      [] l.op = "share_bucket" -> ShareBucketStep(w, l, o)
      [] l.op = "unshare_bucket" -> UnshareBucketStep(w, l, o)
      [] l.op = "update_bucket_permission" -> UpdateBucketPermissionStep(w, l, o)
      [] l.op = "search_files" -> SearchStep(w, l, o)
      [] l.op = "get_user_buckets" -> GetUserBucketsStep(w, l, o)
      [] l.op = "api_delete_bucket" -> ApiDeleteBucketStep(w, l, o)
      [] l.op = "api_search_files" -> ApiSearchStep(w, l, o)

\* the outcomes the I/O of the next step can have, io being the outcomes a
\* write of a JSON file can have and k the number of failures still to come
OutcomesAt(l, io, k) == IF l.pc \in WritePcs /\ k > 0 THEN io ELSE {"ok"}

\* the call run from frame l to its return with no other call interleaved:
\* every world and frame it can end in, with the failures left
RECURSIVE Run(_, _, _, _)
Run(w, l, io, k) ==
    IF l.pc = "done" THEN {[w |-> w, l |-> l, k |-> k]}
    ELSE UNION {Run(Step(w, l, o).w, Step(w, l, o).l, io,
                    IF o = "ok" THEN k ELSE k - 1) : o \in OutcomesAt(l, io, k)}

\* ------------------------------------------------------------------- inputs
Procs == {"p1", "p2"}

BucketNames == {<<"a", "_", "b">>}

LongName == [i \in 1..(MAX_BUCKET_NAME_LEN + 1) |-> "a"]

CreateNames == BucketNames \cup {<<>>, <<"a", "!">>, LongName}

\* the users who create buckets
Owners == {"u1", "u2"}

BucketIds == {BucketId(u, b) : u \in Owners, b \in BucketNames} \cup {<<"u1">>}

UploadNames == {<<"R", " ", "r", ".PNG">>, <<"r", ".exe">>, <<>>}

RenameNames == {<<" ", "r", ".pdf", " ">>, <<" ">>, <<>>}

Sizes == {1048576}

ContentLengths == {0, MAX_FILE_SIZE + 1}

Levels == PERMISSION_LEVELS \cup {"owner"}

Queries == {<<>>, <<"R", ".pdf">>}

FilterSets ==
    {NoFilters,
     [file_type |-> "image", size_category |-> "medium", date_range |-> "today",
      bucket_id |-> BucketId("u1", <<"a", "_", "b">>)]}

FileIds == 1..MaxFiles

IoOk == {"ok"}
IoAny == {"ok", "fail", "trunc"}

\* --------------------------------------------------------- frames of calls
CreateBucketCall(u, b) == [Frame("create_bucket", u) EXCEPT !.bucket_name = b]
DeleteBucketCall(u, b) == [Frame("delete_bucket", u) EXCEPT !.bucket_name = b]
UploadCall(u, b, n, c, z) ==
    [Frame("upload_file", u) EXCEPT !.bucket_name = b, !.filename = n,
                                    !.content_length = c, !.size = z]
DownloadCall(u, f) == [Frame("download_file", u) EXCEPT !.file_id = f]
DeleteFileCall(u, f) == [Frame("delete_file", u) EXCEPT !.file_id = f]
RenameCall(u, f, n) == [Frame("rename_file", u) EXCEPT !.file_id = f, !.new_name = n]
ShareCall(u, b, e, lv) ==
    [Frame("share_bucket", u) EXCEPT !.bucket_id = b, !.email = e, !.level = lv]
UnshareCall(u, b, e) ==
    [Frame("unshare_bucket", u) EXCEPT !.bucket_id = b, !.email = e]
UpdatePermissionCall(u, b, e, lv) ==
    [Frame("update_bucket_permission", u) EXCEPT !.bucket_id = b, !.email = e,
                                                 !.level = lv]
SearchCall(u, q, fl) == [Frame("search_files", u) EXCEPT !.query = q, !.filters = fl]
ApiSearchCall(u, q, fl) ==
    [Frame("api_search_files", u) EXCEPT !.query = q, !.filters = fl]
GetUserBucketsCall(u) == Frame("get_user_buckets", u)
ApiDeleteBucketCall(u, b) == [Frame("api_delete_bucket", u) EXCEPT !.bucket_id = b]

\* -------------------------------------------------------------------- Init
Init ==
    /\ dirs = {}
    /\ disk = {}
    /\ metadata = EmptyDict
    /\ search_index = EmptyDict
    /\ permissions = EmptyDict
    /\ nextId = 1
    /\ now = 0
    /\ procs = [p \in Procs |-> Idle]
    /\ deleted = {}
    /\ failures = 0
    /\ calls = 0

SetWorld(w) ==
    /\ dirs' = w.dirs
    /\ disk' = w.disk
    /\ metadata' = w.metadata
    /\ search_index' = w.search_index
    /\ permissions' = w.permissions
    /\ nextId' = w.nextId
    /\ now' = w.now

\* the calls that have drawn no uuid yet, and those that have written no
\* permission record yet
Pending(op) == Cardinality({p \in Procs : procs[p].op = op /\ procs[p].pc # "done"})

\* Bounds of the model: the calls that would take a collection past them are
\* not made.
WithinBounds(l) ==
    /\ l.op = "upload_file" => nextId + Pending("upload_file") <= MaxFiles
    /\ l.op = "share_bucket" =>
          \/ Cardinality(DOMAIN permissions) + Pending("share_bucket") < MaxPerms
          \/ PermissionId(l.bucket_id, SharedUserId(l.email)) \in DOMAIN permissions

\* delete_file returned success for l.file_id
Deleted(l) == IF l.op = "delete_file" /\ l.pc = "done" /\ l.ok
              THEN deleted \cup {l.file_id} ELSE deleted

\* a whole call, run alone from its first line to its return
Call(l, io) ==
    /\ WithinBounds(l)
    /\ \A p \in Procs : procs[p].pc = "done"
    /\ \E r \in Run(World, l, io, MaxFailures - failures) :
          /\ SetWorld(r.w)
          /\ deleted' = Deleted(r.l)
          /\ failures' = MaxFailures - r.k
    /\ UNCHANGED <<procs, calls>>

CreateBucket(io, cs) ==
    \E u \in cs \cap Owners, b \in CreateNames : Call(CreateBucketCall(u, b), io)

DeleteBucket(io, cs) ==
    \E u \in cs, b \in BucketNames : Call(DeleteBucketCall(u, b), io)

UploadFile(io, cs) ==
    \E u \in cs, b \in BucketNames, n \in UploadNames, c \in ContentLengths,
       z \in Sizes : Call(UploadCall(u, b, n, c, z), io)

DownloadFile(io, cs) ==
    \E u \in cs, f \in FileIds : Call(DownloadCall(u, f), io)

DeleteFile(io, cs) ==
    \E u \in cs, f \in FileIds : Call(DeleteFileCall(u, f), io)

RenameFile(io, cs) ==
    \E u \in cs, f \in FileIds, n \in RenameNames : Call(RenameCall(u, f, n), io)

ShareBucket(io, cs) ==
    \E u \in cs, b \in BucketIds, e \in Emails, lv \in Levels :
       Call(ShareCall(u, b, e, lv), io)

UnshareBucket(io, cs) ==
    \E u \in cs, b \in BucketIds, e \in Emails : Call(UnshareCall(u, b, e), io)

UpdateBucketPermission(io, cs) ==
    \E u \in cs, b \in BucketIds, e \in Emails, lv \in Levels :
       Call(UpdatePermissionCall(u, b, e, lv), io)

SearchFiles(io, cs) ==
    \E u \in cs, q \in Queries, fl \in FilterSets : Call(SearchCall(u, q, fl), io)

GetUserBuckets(io, cs) ==
    \E u \in cs : Call(GetUserBucketsCall(u), io)

ApiDeleteBucket(io, cs) ==
    \E u \in cs, b \in BucketIds : Call(ApiDeleteBucketCall(u, b), io)

ApiSearchFiles(io, cs) ==
    \E u \in cs, q \in Queries, fl \in FilterSets : Call(ApiSearchCall(u, q, fl), io)

\* calls made one at a time by any user, no I/O failure
Next ==
    \/ CreateBucket(IoOk, Users)
    \/ DeleteBucket(IoOk, Users)
    \/ UploadFile(IoOk, Users)
    \/ DownloadFile(IoOk, Users)
    \/ DeleteFile(IoOk, Users)
    \/ RenameFile(IoOk, Users)
    \/ ShareBucket(IoOk, Users)
    \/ UnshareBucket(IoOk, Users)
    \/ UpdateBucketPermission(IoOk, Users)
    \/ SearchFiles(IoOk, Users)
    \/ GetUserBuckets(IoOk, Users)
    \/ ApiDeleteBucket(IoOk, Users)
    \/ ApiSearchFiles(IoOk, Users)

Spec == Init /\ [][Next]_vars

\* calls made one at a time by an owner and another user, where writes of the
\* JSON files may fail
FailCallers == {"u1", "u3"}

NextFail ==
    \/ CreateBucket(IoAny, FailCallers)
    \/ DeleteBucket(IoAny, FailCallers)
    \/ UploadFile(IoAny, FailCallers)
    \/ DownloadFile(IoAny, FailCallers)
    \/ DeleteFile(IoAny, FailCallers)
    \/ RenameFile(IoAny, FailCallers)
    \/ ShareBucket(IoAny, FailCallers)
    \/ UnshareBucket(IoAny, FailCallers)
    \/ UpdateBucketPermission(IoAny, FailCallers)
    \/ SearchFiles(IoAny, FailCallers)
    \/ GetUserBuckets(IoAny, FailCallers)
    \/ ApiDeleteBucket(IoAny, FailCallers)

SpecFail == Init /\ [][NextFail]_vars

\* ------------------------------------------------------- concurrent callers
\* A caller enters a call at its first line ...
Begin(p, l) ==
    /\ procs[p].pc = "done"
    /\ WithinBounds(l)
    /\ calls < MaxCalls
    /\ calls' = calls + 1
    /\ procs' = [procs EXCEPT ![p] = [l EXCEPT !.pc = "start"]]
    /\ UNCHANGED <<dirs, disk, metadata, search_index, permissions, nextId, now,
                   deleted, failures>>

BeginCreateBucket(p) ==
    \E b \in BucketNames : Begin(p, CreateBucketCall("u1", b))

BeginDeleteBucket(p) ==
    \E b \in BucketNames : Begin(p, DeleteBucketCall("u1", b))

BeginUploadFile(p) ==
    \E b \in BucketNames :
       Begin(p, UploadCall("u1", b, <<"R", " ", "r", ".PNG">>, 0, 1048576))

BeginDownloadFile(p) ==
    \E f \in FileIds : Begin(p, DownloadCall("u1", f))

BeginDeleteFile(p) ==
    \E f \in FileIds : Begin(p, DeleteFileCall("u1", f))

BeginRenameFile(p) ==
    \E f \in FileIds : Begin(p, RenameCall("u1", f, <<" ", "r", ".pdf", " ">>))

BeginShareBucket(p) ==
    \E b \in BucketNames, e \in {"e2", "e3"} :
       Begin(p, ShareCall("u1", BucketId("u1", b), e, "view"))

BeginUnshareBucket(p) ==
    \E b \in BucketNames, e \in {"e2", "e3"} :
       Begin(p, UnshareCall("u1", BucketId("u1", b), e))

BeginSearchFiles(p) ==
    Begin(p, SearchCall("u1", <<>>, NoFilters))

\* ... and makes its next access to the files
StepCall(p) ==
    /\ procs[p].pc # "done"
    /\ LET r == Step(World, procs[p], "ok")
       IN /\ SetWorld(r.w)
          /\ procs' = [procs EXCEPT ![p] = r.l]
          /\ deleted' = Deleted(r.l)
          /\ UNCHANGED <<failures, calls>>

NextConc ==
    \E p \in Procs :
       \/ BeginCreateBucket(p)
       \/ BeginDeleteBucket(p)
       \/ BeginUploadFile(p)
       \/ BeginDownloadFile(p)
       \/ BeginDeleteFile(p)
       \/ BeginRenameFile(p)
       \/ BeginShareBucket(p)
       \/ BeginUnshareBucket(p)
       \/ BeginSearchFiles(p)
       \/ StepCall(p)

\* the concurrent callers start once u1 has created its bucket
InitConc ==
    /\ dirs = {<<"u1", <<"a", "_", "b">>>>}
    /\ disk = {}
    /\ metadata = EmptyDict
    /\ search_index = EmptyDict
    /\ permissions = EmptyDict
    /\ nextId = 1
    /\ now = 0
    /\ procs = [p \in Procs |-> Idle]
    /\ deleted = {}
    /\ failures = 0
    /\ calls = 0

SpecConc == InitConc /\ [][NextConc]_vars


\* =================================================================== claims
\* the outcome of one call made alone in the current state, no I/O failing
Outcome(l) == CHOOSE r \in Run(World, l, IoOk, 0) : TRUE

\* user u is named as grantee in a permission record for bucket bid
IsGrantee(u, bid) ==
    \E k \in DOMAIN permissions :
       permissions[k].bucket_id = bid /\ permissions[k].shared_with = u

\* C1: for every object uploaded and not deleted, download by the owner of
\* its bucket succeeds, and download by a user who is neither the owner nor a
\* grantee of the bucket fails with "Access denied" and returns no path.
C1_DownloadOwnerAndStranger ==
    \A f \in DOMAIN metadata : \A u \in Users :
       LET r == Outcome(DownloadCall(u, f))
       IN /\ u = metadata[f].user_id =>
                r.l.ok /\ r.l.path = metadata[f].file_path /\ r.l.path \in disk
          /\ (u # metadata[f].user_id /\ ~IsGrantee(u, metadata[f].bucket_id)) =>
                ~r.l.ok /\ r.l.msg = "Access denied" /\ r.l.path = NoPath

\* an object exists whose bucket has a grantee and a user with no record
C1_Witness ==
    \E f \in DOMAIN metadata : \E u, v \in Users :
       /\ u # metadata[f].user_id /\ ~IsGrantee(u, metadata[f].bucket_id)
       /\ IsGrantee(v, metadata[f].bucket_id)
       /\ ~Outcome(DownloadCall(u, f)).l.ok
       /\ Outcome(DownloadCall(v, f)).l.ok
       /\ Outcome(DownloadCall(metadata[f].user_id, f)).l.ok

\* C2: can_perform_action(user, bucket, action), action in {view, upload,
\* full}, is true exactly when the resolved level is owner or full, or upload
\* and the action is view or upload, or view and the action is view; level
\* none authorizes nothing.
Actions == {"view", "upload", "full"}

C2_Authorize ==
    \A u \in Users : \A b \in BucketIds : \A a \in Actions :
       LET level == check_permission_level(permissions, u, b)
       IN /\ can_perform_action(permissions, u, b, a)
               <=> \/ level \in {"owner", "full"}
                   \/ (level = "upload" /\ a \in {"view", "upload"})
                   \/ (level = "view" /\ a = "view")
          /\ level = "none" => ~can_perform_action(permissions, u, b, a)

\* the levels upload and view are both held by some user
C2_Witness ==
    \E u, v \in Users : \E b, c \in BucketIds :
       /\ check_permission_level(permissions, u, b) = "upload"
       /\ ~can_perform_action(permissions, u, b, "full")
       /\ can_perform_action(permissions, u, b, "upload")
       /\ check_permission_level(permissions, v, c) = "view"
       /\ ~can_perform_action(permissions, v, c, "upload")

\* C3: whatever the user, the query and the filters, search returns no object
\* whose bucket_id is outside the buckets the user owns or has a permission
\* record for.
C3_SearchAccessible ==
    \A u \in Users : \A q \in Queries : \A fl \in FilterSets :
       LET r == Outcome(SearchCall(u, q, fl))
       IN \A i \in 1..Len(r.l.results) :
             LET bid == r.l.results[i].bucket_id
             IN \/ \E d \in dirs : d[1] = u /\ bid = BucketId(d[1], d[2])
                \/ IsGrantee(u, bid)

\* a grantee's search returns an object of the shared bucket while another
\* user's search returns nothing
C3_Witness ==
    \E u, v \in Users :
       /\ \E i \in 1..Len(Outcome(SearchCall(u, <<>>, NoFilters)).l.results) :
             LET x == Outcome(SearchCall(u, <<>>, NoFilters)).l.results[i]
             IN x.user_id # u /\ IsGrantee(u, x.bucket_id)
       /\ Outcome(SearchCall(v, <<>>, NoFilters)).l.results = <<>>
       /\ deleted # {}

\* C4: a delete or a rename of an existing object by a user whose level on the
\* object's bucket is none, view or upload fails with the insufficient-
\* permissions outcome and leaves the bytes, the Object records and the index
\* entries as they were.
C4_DeniedMutationChangesNothing ==
    \A f \in DOMAIN metadata : \A u \in Users :
       check_permission_level(permissions, u, metadata[f].bucket_id)
          \in {"none", "view", "upload"} =>
             /\ LET r == Outcome(DeleteFileCall(u, f))
                IN /\ ~r.l.ok
                   /\ r.l.msg = "Insufficient permissions to delete file"
                   /\ r.w.disk = disk
                   /\ r.w.metadata = metadata
                   /\ r.w.search_index = search_index
             /\ \A n \in RenameNames :
                   LET r == Outcome(RenameCall(u, f, n))
                   IN /\ ~r.l.ok
                      /\ r.l.msg = "Insufficient permissions to rename file"
                      /\ r.w.disk = disk
                      /\ r.w.metadata = metadata
                      /\ r.w.search_index = search_index

\* an object exists on whose bucket one user holds upload and another view,
\* both are refused, and the owner is not
C4_Witness ==
    \E f \in DOMAIN metadata : \E u, v \in Users :
       /\ check_permission_level(permissions, u, metadata[f].bucket_id) = "upload"
       /\ check_permission_level(permissions, v, metadata[f].bucket_id) = "view"
       /\ ~Outcome(DeleteFileCall(u, f)).l.ok
       /\ ~Outcome(RenameCall(v, f, <<" ", "r", ".pdf", " ">>)).l.ok
       /\ Outcome(DeleteFileCall(metadata[f].user_id, f)).l.ok
       /\ f \in DOMAIN search_index /\ metadata[f].file_path \in disk

\* C5: once delete_file has returned success for a file_id, every later
\* download of that file_id, by any user, reports "File not found", and no
\* later search, by any user with any query and filters, returns an entry of
\* that file_id.
C5_DeletedStaysGone ==
    \A f \in deleted :
       /\ \A u \in Users :
             LET r == Outcome(DownloadCall(u, f))
             IN ~r.l.ok /\ r.l.msg = "File not found" /\ r.l.path = NoPath
       /\ \A u \in Users : \A q \in Queries : \A fl \in FilterSets :
             LET r == Outcome(SearchCall(u, q, fl))
             IN \A i \in 1..Len(r.l.results) :
                   r.l.results[i].index_key # f /\ r.l.results[i].file_id # f

\* a file was deleted, and another one of a bucket shared at level full is
\* still found by the grantee's search and download
C5_Witness ==
    \E f \in deleted : \E g \in DOMAIN metadata : \E u \in Users :
       /\ check_permission_level(permissions, u, metadata[g].bucket_id) = "full"
       /\ Outcome(DownloadCall(u, g)).l.ok
       /\ \E i \in 1..Len(Outcome(SearchCall(u, <<>>, NoFilters)).l.results) :
             Outcome(SearchCall(u, <<>>, NoFilters)).l.results[i].file_id = g
       /\ ~Outcome(DownloadCall(u, f)).l.ok

\* C6: with calls made one at a time and no I/O failure, the file metadata
\* and the search index have the same file_ids, and each index entry's
\* file_name, file_type, size, upload_date, bucket_id and user_id equal those
\* of the Object record.
C6_IndexInLockstep ==
    /\ DOMAIN metadata = DOMAIN search_index
    /\ \A f \in DOMAIN metadata :
          /\ search_index[f].file_name = metadata[f].file_name
          /\ search_index[f].file_type = metadata[f].file_type
          /\ search_index[f].size = metadata[f].size
          /\ search_index[f].upload_date = metadata[f].upload_date
          /\ search_index[f].bucket_id = metadata[f].bucket_id
          /\ search_index[f].user_id = metadata[f].user_id

\* a renamed object is recorded after another one was deleted
C6_Witness ==
    /\ deleted # {}
    /\ \E f \in DOMAIN metadata :
          /\ metadata[f].file_name = <<"r", ".pdf">>
          /\ search_index[f].file_name = <<"r", ".pdf">>
          /\ metadata[f].file_path \in disk

\* no call is in progress
Quiescent == \A p \in Procs : procs[p].pc = "done"

\* C7: in every state where no call is in progress, reached by any
\* interleaving of concurrent calls without I/O failure, every Object record
\* has its bytes at the recorded file_path and every stored file has an
\* Object record.
C7_RecordsMatchBytes ==
    Quiescent =>
       /\ \A f \in DOMAIN metadata : metadata[f].file_path \in disk
       /\ \A path \in disk :
             \E f \in DOMAIN metadata : metadata[f].file_path = path

\* every run of upload_file from the current state in which at most one write
\* of a JSON file fails
UploadRuns ==
    UNION {Run(World, UploadCall(u, b, n, c, z), IoAny, 1) :
              u \in FailCallers, b \in BucketNames, n \in UploadNames,
              c \in ContentLengths, z \in Sizes}

\* C8: when upload_file returns failure, whatever the reason, no bytes, no
\* Object record and no index entry exist afterwards for the file_id the
\* upload generated.
C8_FailedUploadLeavesNothing ==
    nextId <= MaxFiles =>
       \A r \in UploadRuns :
          (~r.l.ok /\ r.l.file_id # 0) =>
             /\ r.l.file_id \notin DOMAIN r.w.metadata
             /\ r.l.file_id \notin DOMAIN r.w.search_index
             /\ \A path \in r.w.disk : path.name[1] # r.l.file_id

\* every run of delete_file on an existing object from the current state in
\* which at most one write of a JSON file fails
DeleteRuns(f) ==
    UNION {Run(World, DeleteFileCall(u, f), IoAny, 1) : u \in FailCallers}

\* C9: when a write of the metadata or of the index fails during delete_file,
\* the call returns failure and the bytes, the Object record and the index
\* entry all remain; and delete_file never returns success while the Object
\* record or the index entry of the file_id still exists.
C9_DeleteAllOrNothing ==
    \A f \in DOMAIN metadata \cap DOMAIN search_index :
       \A r \in DeleteRuns(f) :
          /\ r.k = 0 =>
                /\ ~r.l.ok
                /\ r.w.disk = disk
                /\ f \in DOMAIN r.w.metadata /\ r.w.metadata[f] = metadata[f]
                /\ f \in DOMAIN r.w.search_index
                /\ r.w.search_index[f] = search_index[f]
          /\ r.l.ok =>
                f \notin DOMAIN r.w.metadata /\ f \notin DOMAIN r.w.search_index

\* both callers have made one call each, the calls have returned success and
\* no third call was made
BothReturned(op) ==
    /\ calls = 2
    /\ \A p \in Procs : procs[p].op = op /\ procs[p].pc = "done" /\ procs[p].ok

\* C10: once two share_bucket calls for different grantees, or two
\* upload_file calls, run concurrently, have both returned success, the
\* collection holds the records written by both.
C10_NoLostUpdate ==
    /\ (BothReturned("share_bucket") /\ procs["p1"].email # procs["p2"].email) =>
          \A p \in Procs :
             PermissionId(procs[p].bucket_id, SharedUserId(procs[p].email))
                \in DOMAIN permissions
    /\ BothReturned("upload_file") =>
          \A p \in Procs :
             /\ procs[p].file_id \in DOMAIN metadata
             /\ procs[p].file_id \in DOMAIN search_index

\* the searches that have read both the search index and the file metadata
Readers ==
    {p \in Procs : procs[p].op = "search_files"
                   /\ procs[p].pc \in {"q_buckets", "q_perms"}}

\* C11: a search running concurrently with uploads, deletes and renames never
\* reads, for any file_id, an Object record without its index entry, an index
\* entry without its Object record, or the two with different file_name.
C11_ReadersSeeNoDivergence ==
    \A p \in Readers :
       /\ DOMAIN procs[p].md = DOMAIN procs[p].si
       /\ \A f \in DOMAIN procs[p].md \cap DOMAIN procs[p].si :
             procs[p].md[f].file_name = procs[p].si[f].file_name

\* every run of share_bucket or unshare_bucket from the current state in
\* which at most one write of permissions.json fails; each of these calls
\* writes the file at most once
PermissionRuns ==
    UNION ({Run(World, ShareCall(u, b, e, lv), IoAny, 1) :
               u \in FailCallers, b \in BucketIds, e \in Emails,
               lv \in PERMISSION_LEVELS}
           \cup {Run(World, UnshareCall(u, b, e), IoAny, 1) :
                    u \in FailCallers, b \in BucketIds, e \in Emails})

\* C12: a write of a collection that fails leaves the collection's previous
\* content intact: a read after it returns exactly the records present before
\* the failed write, never an empty collection.
C12_FailedWriteKeepsContent ==
    \A r \in PermissionRuns : r.k = 0 => r.w.permissions = permissions

\* the records of a collection c that carry bucket_id bid
OfBucket(c, bid) == {f \in DOMAIN c : c[f].bucket_id = bid}

\* the entries of name b in the list of buckets returned to user u in world w
Listed(w, u, b) ==
    LET r == CHOOSE x \in Run(w, GetUserBucketsCall(u), IoOk, 0) : TRUE
    IN {i \in 1..Len(r.l.results) : r.l.results[i].bucket_name = b}

\* C13: after delete_bucket of an owned bucket has returned success, no
\* Object record and no index entry with its bucket_id remains, and the
\* bucket is no longer in the owner's list of buckets.
C13_BucketDeletePurgesObjects ==
    \A u \in Users : \A b \in BucketNames :
       LET r == Outcome(DeleteBucketCall(u, b))
       IN r.l.ok =>
             /\ OfBucket(r.w.metadata, BucketId(u, b)) = {}
             /\ OfBucket(r.w.search_index, BucketId(u, b)) = {}
             /\ b \notin db_get_user_buckets(r.w, u)
             /\ Listed(r.w, u, b) = {}

\* a bucket holding two objects is listed and its deletion succeeds
C13_Witness ==
    \E u \in Users : \E b \in BucketNames :
       /\ Cardinality(OfBucket(metadata, BucketId(u, b))) = 2
       /\ Cardinality(OfBucket(search_index, BucketId(u, b))) = 2
       /\ Listed(World, u, b) # {}
       /\ Outcome(DeleteBucketCall(u, b)).l.ok

\* C14: after delete_bucket of an owned bucket has returned success, the
\* permissions hold no record whose bucket_id is that of the deleted bucket.
C14_BucketDeletePurgesPermissions ==
    \A u \in Users : \A b \in BucketNames :
       LET r == Outcome(DeleteBucketCall(u, b))
       IN r.l.ok => OfBucket(r.w.permissions, BucketId(u, b)) = {}

\* the bucket of directory d, its bytes, its Object records, its index
\* entries and its permission records are in world w as they are now
BucketUntouched(w, d) ==
    LET bid == BucketId(d[1], d[2])
    IN /\ d \in w.dirs
       /\ {p \in w.disk : p.user = d[1] /\ p.bucket = d[2]}
             = {p \in disk : p.user = d[1] /\ p.bucket = d[2]}
       /\ OfBucket(w.metadata, bid) = OfBucket(metadata, bid)
       /\ \A f \in OfBucket(metadata, bid) : w.metadata[f] = metadata[f]
       /\ OfBucket(w.search_index, bid) = OfBucket(search_index, bid)
       /\ \A f \in OfBucket(search_index, bid) : w.search_index[f] = search_index[f]
       /\ OfBucket(w.permissions, bid) = OfBucket(permissions, bid)
       /\ \A k \in OfBucket(permissions, bid) : w.permissions[k] = permissions[k]

\* C15: no bucket delete by a user removes or alters a bucket of another
\* user, whatever level the caller holds on it: the request naming the other
\* user's bucket_id fails and changes nothing, and delete_bucket, which acts
\* on the caller's own directory of a name, leaves the other user's bucket,
\* objects and permission records as they were.
C15_BucketDeleteOwnOnly ==
    \A u \in Users : \A d \in dirs :
       d[1] # u =>
          /\ LET r == Outcome(ApiDeleteBucketCall(u, BucketId(d[1], d[2])))
             IN /\ ~r.l.ok
                /\ r.l.msg = "You can only delete your own buckets"
                /\ r.w = World
          /\ \A b \in BucketNames :
                BucketUntouched(Outcome(DeleteBucketCall(u, b)).w, d)

\* a user holds full on another user's bucket, which has an object, and owns
\* a bucket of the same name, whose deletion succeeds
C15_Witness ==
    \E u \in Users : \E d \in dirs :
       /\ d[1] # u
       /\ check_permission_level(permissions, u, BucketId(d[1], d[2])) = "full"
       /\ OfBucket(metadata, BucketId(d[1], d[2])) # {}
       /\ <<u, d[2]>> \in dirs
       /\ Outcome(DeleteBucketCall(u, d[2])).l.ok
       /\ ~Outcome(ApiDeleteBucketCall(u, BucketId(d[1], d[2]))).l.ok

\* names _validate_bucket_name accepts: the one the callers use, a single
\* letter, hyphen and digit, and one of the greatest length
ValidNames ==
    BucketNames \cup {<<"a">>, <<"-", "0">>, [i \in 1..MAX_BUCKET_NAME_LEN |-> "b"]}

\* the entries of name b in the list get_user_buckets gives u in world w
EntriesOf(w, u, b) ==
    LET r == CHOOSE x \in Run(w, GetUserBucketsCall(u), IoOk, 0) : TRUE
    IN [i \in Listed(w, u, b) |-> r.l.results[i]]

\* C16: whatever calls have completed, a user who has no bucket of a valid
\* name can create it, and the list that follows has exactly one entry of
\* that name, with file_count 0 and total_size 0.
C16_CreateThenListed ==
    \A u \in Users : \A b \in ValidNames :
       b \notin db_get_user_buckets(World, u) =>
          LET r == Outcome(CreateBucketCall(u, b))
              e == EntriesOf(r.w, u, b)
          IN /\ r.l.ok
             /\ r.l.msg = "Bucket created successfully"
             /\ Cardinality(DOMAIN e) = 1
             /\ \A i \in DOMAIN e : e[i].file_count = 0 /\ e[i].total_size = 0

\* a user without the bucket, while another user's bucket of the same name
\* holds two objects and is shared with that user
C16_Witness ==
    \E u \in Users : \E d \in dirs :
       /\ d[1] # u
       /\ <<u, d[2]>> \notin dirs
       /\ Cardinality(OfBucket(metadata, BucketId(d[1], d[2]))) = 2
       /\ check_permission_level(permissions, u, BucketId(d[1], d[2])) # "none"
       /\ Outcome(CreateBucketCall(u, d[2])).l.ok
       /\ Listed(Outcome(CreateBucketCall(u, d[2])).w, u, d[2]) # {}

\* names _validate_bucket_name refuses: empty, longer than 63, or with a
\* character outside letters, digits, hyphen and underscore
InvalidNames ==
    {<<>>, LongName, <<"a", "!">>, <<"a", " ">>, <<".", ".">>, <<"a", "/", "b">>}

\* what get_user_buckets gives u in world w
ListFor(w, u) ==
    (CHOOSE x \in Run(w, GetUserBucketsCall(u), IoOk, 0) : TRUE).l.results

\* C17: a create with an empty name, a name of more than 63 characters or a
\* name with a character outside letters, digits, hyphen and underscore
\* fails with the validation message, makes no directory and no metadata,
\* and leaves the caller's list as it was.
C17_InvalidNameRefused ==
    \A u \in Users : \A b \in InvalidNames :
       LET r == Outcome(CreateBucketCall(u, b))
       IN /\ ~r.l.ok
          /\ r.l.msg = "Invalid bucket name"
          /\ r.w = World
          /\ ListFor(r.w, u) = ListFor(World, u)

\* the caller has a bucket with an object, so a list with an entry, and the
\* create of each invalid name has been refused
C17_Witness ==
    \E u \in Users : \E b \in BucketNames :
       /\ Listed(World, u, b) # {}
       /\ OfBucket(metadata, BucketId(u, b)) # {}
       /\ \A n \in InvalidNames : ~Outcome(CreateBucketCall(u, n)).l.ok

\* C18: a create with a name the caller already has fails with the duplicate
\* message and changes nothing, the bucket and its objects included; a
\* create of the same name by a user who does not have it succeeds, with a
\* bucket_id different from the first, and leaves the first bucket as it was.
C18_DuplicatePerOwner ==
    \A d \in dirs :
       /\ LET r == Outcome(CreateBucketCall(d[1], d[2]))
          IN /\ ~r.l.ok
             /\ r.l.msg = "Bucket already exists"
             /\ r.w = World
       /\ \A v \in Users \ {d[1]} :
             <<v, d[2]>> \notin dirs =>
                LET r == Outcome(CreateBucketCall(v, d[2]))
                IN /\ r.l.ok
                   /\ r.l.bucket_id = BucketId(v, d[2])
                   /\ r.l.bucket_id # BucketId(d[1], d[2])
                   /\ <<v, d[2]>> \in r.w.dirs
                   /\ BucketUntouched(r.w, d)

\* a bucket with an object whose owner is refused the name a second time,
\* while a user holding a permission on it is given a bucket of that name
C18_Witness ==
    \E d \in dirs : \E v \in Users \ {d[1]} :
       /\ OfBucket(metadata, BucketId(d[1], d[2])) # {}
       /\ OfBucket(permissions, BucketId(d[1], d[2])) # {}
       /\ <<v, d[2]>> \notin dirs
       /\ ~Outcome(CreateBucketCall(d[1], d[2])).l.ok
       /\ Outcome(CreateBucketCall(v, d[2])).l.ok

\* caller p has uploaded to, and caller q has deleted with success, the same
\* bucket; both calls have returned and they are the only calls made since
\* the bucket was created
UploadAndBucketDelete(p, q) ==
    /\ calls = 2
    /\ procs[p].op = "upload_file" /\ procs[p].pc = "done"
    /\ procs[q].op = "delete_bucket" /\ procs[q].pc = "done" /\ procs[q].ok
    /\ procs[p].user_id = procs[q].user_id
    /\ procs[p].bucket_name = procs[q].bucket_name

\* C19: an upload never brings a bucket into existence: once an upload and a
\* successful bucket delete of the same bucket, run concurrently, have both
\* returned, and the delete came before the upload finished, the bucket does
\* not exist and holds no object, neither bytes nor records.  (An upload
\* that finished before the delete began is deleted with the bucket, so the
\* same holds then.)
C19_UploadCreatesNoBucket ==
    \A p, q \in Procs :
       UploadAndBucketDelete(p, q) =>
          LET u == procs[p].user_id
              b == procs[p].bucket_name
          IN /\ <<u, b>> \notin dirs
             /\ {x \in disk : x.user = u /\ x.bucket = b} = {}
             /\ OfBucket(metadata, BucketId(u, b)) = {}
             /\ OfBucket(search_index, BucketId(u, b)) = {}

\* the permission records of bucket bid for grantee g in the collection pm
OfPair(pm, bid, g) ==
    {k \in DOMAIN pm : pm[k].bucket_id = bid /\ pm[k].shared_with = g}

\* the email that get_user_by_email resolves to user g
EmailOf(g) == CHOOSE e \in Emails : SharedUserId(e) = g

\* C20: whatever share, update and unshare calls have completed, there is at
\* most one permission record for a bucket and a grantee; and a share to a
\* pair that has a record succeeds and leaves that one record, with the new
\* level, and every other record as it was.
C20_OneRecordPerPair ==
    /\ \A k \in DOMAIN permissions :
          OfPair(permissions, permissions[k].bucket_id, permissions[k].shared_with) = {k}
    /\ \A k \in DOMAIN permissions : \A lv \in PERMISSION_LEVELS :
          LET rec == permissions[k]
              r == Outcome(ShareCall(rec.owner, rec.bucket_id,
                                     EmailOf(rec.shared_with), lv))
          IN /\ r.l.ok
             /\ DOMAIN r.w.permissions = DOMAIN permissions
             /\ OfPair(r.w.permissions, rec.bucket_id, rec.shared_with) = {k}
             /\ r.w.permissions[k].permission_level = lv
             /\ \A j \in DOMAIN permissions \ {k} : r.w.permissions[j] = permissions[j]

\* a bucket shared with two grantees at different levels, and a share that
\* lowers the record with full to view
C20_Witness ==
    \E k, j \in DOMAIN permissions :
       /\ k # j
       /\ permissions[k].bucket_id = permissions[j].bucket_id
       /\ permissions[k].permission_level = "full"
       /\ permissions[j].permission_level # "full"
       /\ LET rec == permissions[k]
              r == Outcome(ShareCall(rec.owner, rec.bucket_id,
                                     EmailOf(rec.shared_with), "view"))
          IN r.l.ok /\ r.w.permissions[k].permission_level = "view"

\* C21: a share fails and leaves the permissions as they were when the caller
\* is not the owner named by the bucket_id prefix, when no user has the
\* grantee's email, or when the grantee is the owner; with a valid level the
\* message is that of the not-owner case before that of the unknown user,
\* and that of the unknown user before that of the self-share.
C21_ShareRefusals ==
    \A u \in Users : \A b \in BucketIds : \A e \in Emails : \A lv \in Levels :
       LET r == Outcome(ShareCall(u, b, e, lv))
           notOwner == Len(Split1(b)) # 2 \/ Split1(b)[1] # <<u>>
           unknown == \A v \in Users : users[v].email # e
           self == \E v \in Users : users[v].email = e /\ v = u
       IN (notOwner \/ unknown \/ self) =>
             /\ ~r.l.ok
             /\ r.w = World
             /\ lv \in PERMISSION_LEVELS =>
                   r.l.msg = IF notOwner THEN "You can only share your own buckets"
                             ELSE IF unknown THEN "User not found"
                             ELSE "Cannot share bucket with yourself"

\* a grantee holding full on a bucket shares it with an email of no user
\* and with the grantee's own email: not the owner, and both are refused
C21_Witness ==
    \E u \in Users : \E d \in dirs :
       /\ d[1] # u
       /\ check_permission_level(permissions, u, BucketId(d[1], d[2])) = "full"
       /\ ~Outcome(ShareCall(u, BucketId(d[1], d[2]), "nobody", "view")).l.ok
       /\ ~Outcome(ShareCall(u, BucketId(d[1], d[2]), users[u].email, "view")).l.ok
       /\ ~Outcome(ShareCall(d[1], BucketId(d[1], d[2]), users[d[1]].email, "view")).l.ok

\* C22: an unshare or an update of the level for a bucket and a grantee that
\* have no permission record fails and leaves the permissions as they were;
\* the update creates no record.
C22_NoRecordNoChange ==
    \A u \in Users : \A b \in BucketIds : \A e \in Emails :
       OfPair(permissions, b, SharedUserId(e)) = {} =>
          /\ LET r == Outcome(UnshareCall(u, b, e))
             IN ~r.l.ok /\ r.w = World
          /\ \A lv \in Levels :
                LET r == Outcome(UpdatePermissionCall(u, b, e, lv))
                IN /\ ~r.l.ok
                   /\ r.w = World
                   /\ OfPair(r.w.permissions, b, SharedUserId(e)) = {}

\* the owner of a bucket shared with one grantee is refused the unshare and
\* the update for another user, who has no record on it
C22_Witness ==
    \E k \in DOMAIN permissions : \E g \in Users :
       LET rec == permissions[k]
       IN /\ g \notin {rec.owner, rec.shared_with}
          /\ OfPair(permissions, rec.bucket_id, g) = {}
          /\ ~Outcome(UnshareCall(rec.owner, rec.bucket_id, EmailOf(g))).l.ok
          /\ ~Outcome(UpdatePermissionCall(rec.owner, rec.bucket_id, EmailOf(g), "full")).l.ok
          /\ Outcome(UnshareCall(rec.owner, rec.bucket_id, EmailOf(rec.shared_with))).l.ok

\* user g has no way into bucket bid: the resolved level is none, every
\* download by g of an object of the bucket is denied and no search by g
\* returns an object of the bucket
ShutOut(g, bid) ==
    /\ check_permission_level(permissions, g, bid) = "none"
    /\ \A f \in OfBucket(metadata, bid) :
          LET r == Outcome(DownloadCall(g, f))
          IN ~r.l.ok /\ r.l.msg = "Access denied"
    /\ \A q \in Queries : \A fl \in FilterSets :
          LET r == Outcome(SearchCall(g, q, fl))
          IN \A i \in 1..Len(r.l.results) : r.l.results[i].bucket_id # bid

\* a successful unshare removes the record of the pair
UnshareRemoves ==
    \A k \in DOMAIN permissions :
       LET rec == permissions[k]
           r == Outcome(UnshareCall(rec.owner, rec.bucket_id, EmailOf(rec.shared_with)))
       IN r.l.ok => OfPair(r.w.permissions, rec.bucket_id, rec.shared_with) = {}

\* a user without a record on another user's bucket is shut out of it
NoRecordShutOut ==
    \A d \in dirs : \A g \in Users \ {d[1]} :
       OfPair(permissions, BucketId(d[1], d[2]), g) = {} => ShutOut(g, BucketId(d[1], d[2]))

\* a step in which a record appears for a pair that had none has the effect
\* on the permissions of a share of that bucket to that grantee
OnlyShareGrants ==
    \A k \in DOMAIN permissions' :
       LET rec == permissions'[k]
       IN OfPair(permissions, rec.bucket_id, rec.shared_with) = {} =>
             \E lv \in PERMISSION_LEVELS :
                permissions' = Outcome(ShareCall(rec.owner, rec.bucket_id,
                                                 EmailOf(rec.shared_with), lv)).w.permissions

\* C23: once an unshare has returned success, and until a later share to the
\* same grantee, the grantee's level on the bucket is none, every download by
\* the grantee of an object of the bucket is denied and no search by the
\* grantee returns an object of the bucket: the unshare removes the record,
\* a user without a record is shut out, and only a share puts a record back.
C23_UnsharedUntilShared ==
    /\ [](UnshareRemoves /\ NoRecordShutOut)
    /\ [][OnlyShareGrants]_vars

\* a grantee with a record at level full on a bucket with an object can
\* download it; the unshare succeeds and leaves no record of the pair
C23_Witness ==
    \E k \in DOMAIN permissions :
       LET rec == permissions[k]
           r == Outcome(UnshareCall(rec.owner, rec.bucket_id, EmailOf(rec.shared_with)))
       IN /\ rec.permission_level = "full"
          /\ \E f \in OfBucket(metadata, rec.bucket_id) :
                Outcome(DownloadCall(rec.shared_with, f)).l.ok
          /\ r.l.ok
          /\ OfPair(r.w.permissions, rec.bucket_id, rec.shared_with) = {}
          /\ \E g \in Users \ {rec.owner, rec.shared_with} :
                OfPair(permissions, rec.bucket_id, g) = {}

\* declared lengths above Config.MAX_FILE_SIZE
OversizeLengths == {MAX_FILE_SIZE + 1, 2 * MAX_FILE_SIZE}

\* C24: an upload whose declared length exceeds the maximum object size is
\* rejected, and after it returns no bytes, no Object record and no index
\* entry have been added; when the file has a name and the bucket is the
\* caller's, the message is that of the size.  A declared length equal to
\* the maximum is not refused for its size.
C24_OversizeRejected ==
    \A u \in Users : \A b \in BucketNames : \A n \in UploadNames : \A z \in Sizes :
       /\ \A c \in OversizeLengths :
             LET r == Outcome(UploadCall(u, b, n, c, z))
             IN /\ ~r.l.ok
                /\ r.w.disk = disk
                /\ r.w.metadata = metadata
                /\ r.w.search_index = search_index
                /\ (n # <<>> /\ <<u, b>> \in dirs) => r.l.msg = "File too large"
       /\ Outcome(UploadCall(u, b, n, MAX_FILE_SIZE, z)).l.msg # "File too large"

\* the owner of a bucket that holds an object: the upload of a file of an
\* allowed type is accepted with no declared length and with the maximum,
\* and refused with a declared length above it
C24_Witness ==
    \E d \in dirs : \E n \in UploadNames : \E z \in Sizes :
       /\ OfBucket(metadata, BucketId(d[1], d[2])) # {}
       /\ Outcome(UploadCall(d[1], d[2], n, 0, z)).l.ok
       /\ Outcome(UploadCall(d[1], d[2], n, MAX_FILE_SIZE, z)).l.ok
       /\ ~Outcome(UploadCall(d[1], d[2], n, MAX_FILE_SIZE + 1, z)).l.ok
       /\ Outcome(UploadCall(d[1], d[2], n, MAX_FILE_SIZE + 1, z)).l.msg = "File too large"

\* configurations of Config.ALLOWED_EXTENSIONS: the shipped one, the
\* unrestricted one (empty), and ones that hold blocked extensions
AllowedConfigs ==
    {ALLOWED_EXTENSIONS, {}, ALLOWED_EXTENSIONS \cup {".exe"}, {".exe", ".sh"},
     BLOCKED_EXTENSIONS \cup {".png"}}

\* file names whose extension, lower-cased, is in Config.BLOCKED_EXTENSIONS
BlockedNames == {<<"r", ".exe">>, <<"R", ".EXE">>, <<"r", ".sh">>,
                 <<" ", "r", ".exe", " ">>, <<"r", ".png", ".exe">>}

\* the outcome of call l in the current state under the configuration a
OutcomeWith(a, l) ==
    CHOOSE r \in Run([World EXCEPT !.allowed_extensions = a], l, IoOk, 0) : TRUE

NewNames == RenameNames \cup {<<"r", ".pdf">>, <<"r", " ", "r", ".pdf">>}

\* the Object record and the index entry of f in world w have the file name
\* name; the stored name, the path, the bucket, the owner, the size, the type
\* and the upload date of f, the bytes, and the records of every other
\* object are as they are now; and every user whose download of f succeeds
\* now has it succeed in w, at the same path
RenamedTo(w, f, name) ==
    /\ w.metadata[f] = [metadata[f] EXCEPT !.file_name = name]
    /\ w.search_index[f] = [search_index[f] EXCEPT !.file_name = name]
    /\ DOMAIN w.metadata = DOMAIN metadata
    /\ DOMAIN w.search_index = DOMAIN search_index
    /\ \A g \in DOMAIN metadata \ {f} :
          w.metadata[g] = metadata[g] /\ w.search_index[g] = search_index[g]
    /\ w.disk = disk /\ w.dirs = dirs /\ w.permissions = permissions
    /\ \A v \in Users :
          Outcome(DownloadCall(v, f)).l.ok =>
             LET r == CHOOSE x \in Run(w, DownloadCall(v, f), IoOk, 0) : TRUE
             IN r.l.ok /\ r.l.path = metadata[f].file_path

\* C26, as stated: a successful rename sets file_name, in the Object record
\* and in the index entry, to the new name as given, changes nothing else of
\* that object or of any other, and a following download by an authorized
\* user still succeeds.
C26_RenameSetsGivenName ==
    \A u \in Users : \A f \in DOMAIN metadata : \A n \in NewNames :
       LET r == Outcome(RenameCall(u, f, n))
       IN r.l.ok => RenamedTo(r.w, f, n)

\* C26, amended: a successful rename sets file_name, in the Object record and
\* in the index entry, to the new name with its leading and trailing
\* whitespace removed, changes nothing else of that object or of any other,
\* and a following download by an authorized user still succeeds.
C26_RenameSetsStrippedName ==
    \A u \in Users : \A f \in DOMAIN metadata : \A n \in NewNames :
       LET r == Outcome(RenameCall(u, f, n))
       IN r.l.ok => RenamedTo(r.w, f, Strip(n))

\* two objects, one of them in a bucket shared at level full: the grantee's
\* rename to a name with spaces around it succeeds and the grantee could
\* download the object before it
C26_Witness ==
    \E u \in Users : \E f \in DOMAIN metadata :
       /\ Cardinality(DOMAIN metadata) = 2
       /\ check_permission_level(permissions, u, metadata[f].bucket_id) = "full"
       /\ Outcome(DownloadCall(u, f)).l.ok
       /\ Outcome(RenameCall(u, f, <<" ", "r", ".pdf", " ">>)).l.ok
       /\ Outcome(RenameCall(u, f, <<" ", "r", ".pdf", " ">>)).w.metadata[f].file_name
             = <<"r", ".pdf">>

\* the outcome of call l made in world w
OutcomeIn(w, l) == CHOOSE r \in Run(w, l, IoOk, 0) : TRUE

\* C27: two successful uploads with the same display name into the same
\* bucket have distinct file_ids and distinct physical locations; the second
\* leaves the bytes, the Object record and the index entry of the first as
\* they were, and both objects can be downloaded afterwards.  The objects
\* already recorded have pairwise distinct locations, none of them taken by
\* a new upload.
C27_SameNameNoCollision ==
    /\ \A f, g \in DOMAIN metadata :
          f # g => metadata[f].file_path # metadata[g].file_path
    /\ \A u \in Users : \A b \in BucketNames : \A n \in UploadNames : \A z \in Sizes :
          LET r1 == Outcome(UploadCall(u, b, n, 0, z))
              r2 == OutcomeIn(r1.w, UploadCall(u, b, n, 0, z))
              f1 == r1.l.file_id
              f2 == r2.l.file_id
          IN (r1.l.ok /\ r2.l.ok) =>
                /\ f1 # f2
                /\ f1 \notin DOMAIN metadata /\ f2 \notin DOMAIN metadata
                /\ r2.w.metadata[f1].file_name = r2.w.metadata[f2].file_name
                /\ r2.w.metadata[f1].file_path # r2.w.metadata[f2].file_path
                /\ \A g \in DOMAIN metadata :
                      r2.w.metadata[f2].file_path # metadata[g].file_path
                /\ r2.w.metadata[f1] = r1.w.metadata[f1]
                /\ r2.w.search_index[f1] = r1.w.search_index[f1]
                /\ r1.w.metadata[f1].file_path \in r2.w.disk
                /\ r2.w.metadata[f2].file_path \in r2.w.disk
                /\ OutcomeIn(r2.w, DownloadCall(u, f1)).l.ok
                /\ OutcomeIn(r2.w, DownloadCall(u, f2)).l.ok

\* two objects of the same display name are stored in the same bucket, at
\* different locations, and the owner can download both
C27_Witness ==
    \E f, g \in DOMAIN metadata :
       /\ f # g
       /\ metadata[f].file_name = metadata[g].file_name
       /\ metadata[f].bucket_id = metadata[g].bucket_id
       /\ metadata[f].file_path # metadata[g].file_path
       /\ {metadata[f].file_path, metadata[g].file_path} \subseteq disk
       /\ Outcome(DownloadCall(metadata[f].user_id, f)).l.ok
       /\ Outcome(DownloadCall(metadata[g].user_id, g)).l.ok

\* queries and filter sets of a search: each filter alone, passing and
\* failing values, and filters together
SearchQueries == Queries \cup {<<"r">>, <<".PNG">>, <<"b">>}

SearchFilterSets ==
    FilterSets
    \cup {[NoFilters EXCEPT !.file_type = x] : x \in {"image", "document"}}
    \cup {[NoFilters EXCEPT !.size_category = x] : x \in {"small", "medium"}}
    \cup {[NoFilters EXCEPT !.bucket_id = BucketId(u, b)] : u \in Owners, b \in BucketNames}
    \cup {[NoFilters EXCEPT !.file_type = "image", !.size_category = "large"]}

DateFilterSets ==
    {[NoFilters EXCEPT !.date_range = x] : x \in {"today", "week", "month", "year"}}
    \cup {[NoFilters EXCEPT !.date_range = "week", !.file_type = "image"]}

\* evaluation instants: the instant of the uploads, and one tick, one day,
\* eight days and thirty-one days later
Instants == {0, 1, TicksPerDay, 8 * TicksPerDay, 31 * TicksPerDay}

\* the index entries the claim names: in a bucket the user owns or is a
\* grantee of, with the query in the file name whatever the case, and
\* passing each filter that is given
Matching(u, q, fl, t) ==
    {f \in DOMAIN search_index :
       LET e == search_index[f]
       IN /\ \/ \E d \in dirs : d[1] = u /\ e.bucket_id = BucketId(d[1], d[2])
             \/ IsGrantee(u, e.bucket_id)
          /\ q = <<>> \/ Contains(Lower(e.file_name), Lower(q))
          /\ fl.file_type = "" \/ e.file_type = fl.file_type
          /\ fl.size_category = "" \/ get_file_size_category(e.size) = fl.size_category
          /\ fl.date_range = "" \/ _check_date_range(e.upload_date, fl.date_range, t)
          /\ fl.bucket_id = <<>> \/ e.bucket_id = fl.bucket_id}

\* the search of u at instant t returns each entry of Matching once
ReturnsMatching(u, q, fl, t) ==
    LET r == OutcomeIn([World EXCEPT !.now = t], SearchCall(u, q, fl))
    IN /\ r.l.ok
       /\ {r.l.results[i].index_key : i \in 1..Len(r.l.results)} = Matching(u, q, fl, t)
       /\ Len(r.l.results) = Cardinality(Matching(u, q, fl, t))
       /\ \A i \in 1..Len(r.l.results) :
             r.l.results[i].file_name = search_index[r.l.results[i].index_key].file_name

\* C28: for every user, query and filter set, the objects a search returns
\* are exactly the index entries in the user's accessible buckets whose
\* file_name contains the query case-insensitively (every entry when the
\* query is empty) and that pass every filter given among file_type,
\* size_category, date_range and bucket_id (the date_range filter being the
\* test of _check_date_range at the instant of the search).
C28_SearchReturnsExactly ==
    \A u \in Users : \A q \in SearchQueries :
       /\ \A fl \in SearchFilterSets : ReturnsMatching(u, q, fl, now)
       /\ \A fl \in DateFilterSets : \A t \in Instants : ReturnsMatching(u, q, fl, t)

\* a grantee's search for "r" with the image filter returns an object of the
\* shared bucket and leaves out nothing that matches, while the document
\* filter returns nothing and another user gets nothing
C28_Witness ==
    \E u, v \in Users :
       /\ \E f \in Matching(u, <<"r">>, [NoFilters EXCEPT !.file_type = "image"], now) :
             search_index[f].user_id # u
       /\ Matching(u, <<"r">>, [NoFilters EXCEPT !.file_type = "document"], now) = {}
       /\ Matching(u, <<"b">>, NoFilters, now) = {}
       /\ Matching(u, <<>>, [NoFilters EXCEPT !.date_range = "today"], TicksPerDay) = {}
       /\ Matching(u, <<>>, [NoFilters EXCEPT !.date_range = "week"], TicksPerDay) # {}
       /\ Matching(v, <<>>, NoFilters, now) = {}
       /\ DOMAIN search_index # {}
       /\ Len(Outcome(SearchCall(u, <<"r">>, [NoFilters EXCEPT !.file_type = "image"])).l.results) > 0

\* ------------------------------------------------- the ranking of results
\* _sort_search_results applied to lists of three enriched results: names
\* that equal, start with or contain the query, uploaded today, eight days
\* ago or thirty-one days ago, own or not
RankNow == 40 * TicksPerDay

RankQuery == <<"R">>

RankEntries ==
    {[file_name |-> n, file_type |-> "other", size |-> 1, upload_date |-> RankNow - a,
      bucket_id |-> BucketId("u1", <<"a", "_", "b">>), user_id |-> o] :
        n \in {<<"r">>, <<"R", ".pdf">>, <<"r", "_", "b">>, <<"b", "r">>},
        a \in {0, 8 * TicksPerDay, 31 * TicksPerDay},
        o \in {"u1", "u2"}}

RankLists ==
    {[i \in 1..3 |-> SearchResult(e, EmptyDict, i, RankNow)] :
        e \in [1..3 -> RankEntries]}

InitRank ==
    /\ dirs = {}
    /\ disk = {}
    /\ metadata = EmptyDict
    /\ search_index = EmptyDict
    /\ permissions = EmptyDict
    /\ nextId = 1
    /\ now = RankNow
    /\ \E rs \in RankLists :
          procs = [p \in Procs |->
                     IF p = "p1"
                     THEN [SearchCall("u1", RankQuery, NoFilters)
                             EXCEPT !.pc = "q_sort", !.todo = rs]
                     ELSE Idle]
    /\ deleted = {}
    /\ failures = 0
    /\ calls = 0

\* sorted_results = self._sort_search_results(enriched_results, query)
Rank ==
    /\ procs["p1"].pc = "q_sort"
    /\ procs' = [procs EXCEPT !["p1"] =
                   [@ EXCEPT !.results = _sort_search_results(procs["p1"].todo,
                                                              procs["p1"].query, <<>>),
                             !.pc = "done", !.ok = TRUE]]
    /\ UNCHANGED <<dirs, disk, metadata, search_index, permissions, nextId, now,
                   deleted, failures, calls>>

SpecRank == InitRank /\ [][Rank]_vars

\* 3 for a name that equals the query whatever the case, 2 for one that
\* only starts with it, 1 for one that only contains it, 0 otherwise
MatchClass(x, q) ==
    IF Lower(x.file_name) = Lower(q) THEN 3
    ELSE IF StartsWith(Lower(x.file_name), Lower(q)) THEN 2
    ELSE IF Contains(Lower(x.file_name), Lower(q)) THEN 1
    ELSE 0

Ranked == procs["p1"].op = "search_files" /\ procs["p1"].pc = "done"

\* C29: for a non-empty query, in the order returned, every result whose
\* name equals the query (whatever the case) comes before every result whose
\* name only starts with it, which comes before every result whose name only
\* contains it, whatever the recency and ownership bonuses; the list
\* returned has the results given, each as often as given.
C29_MatchClassOrder ==
    Ranked =>
       LET rs == procs["p1"].results
           q == procs["p1"].query
           given == procs["p1"].todo
       IN /\ \A i, j \in 1..Len(rs) :
                i < j => MatchClass(rs[i], q) >= MatchClass(rs[j], q)
          /\ Len(rs) = Len(given)
          /\ \A x \in {given[i] : i \in 1..Len(given)} :
                Cardinality({i \in 1..Len(rs) : rs[i] = x})
                   = Cardinality({i \in 1..Len(given) : given[i] = x})

\* given last, old and not the user's own, the exact match is returned
\* first; given first, recent and the user's own, the name that only
\* contains the query is returned last
C29_Witness ==
    /\ Ranked
    /\ LET rs == procs["p1"].results
           given == procs["p1"].todo
       IN /\ MatchClass(given[1], RankQuery) = 1
          /\ given[1].days_ago = 0 /\ given[1].is_own_file
          /\ MatchClass(given[2], RankQuery) = 2
          /\ MatchClass(given[3], RankQuery) = 3
          /\ given[3].days_ago > 30 /\ ~given[3].is_own_file
          /\ rs = <<given[3], given[2], given[1]>>

\* ------------------------------------------------- the size classification
\* searches of a bucket holding two objects whose sizes lie at and around the
\* limits of the categories
BoundarySizes ==
    {0, SMALL_LIMIT - 1, SMALL_LIMIT, SMALL_LIMIT + 1,
     MEDIUM_LIMIT - 1, MEDIUM_LIMIT, MEDIUM_LIMIT + 1, MAX_FILE_SIZE}

SizeCategories == {"small", "medium", "large"}

\* the files before any call, at instant t
EmptyWorld(t) ==
    [dirs |-> {}, disk |-> {}, metadata |-> EmptyDict,
     search_index |-> EmptyDict, permissions |-> EmptyDict,
     nextId |-> 1, now |-> t,
     allowed_extensions |-> ALLOWED_EXTENSIONS]

\* the files after call l, run alone on the files w with no failing write
After(w, l) == {r.w : r \in Run(w, l, IoOk, 0)}

\* the files are w and no call is in progress
InWorld(w) ==
    /\ dirs = w.dirs
    /\ disk = w.disk
    /\ metadata = w.metadata
    /\ search_index = w.search_index
    /\ permissions = w.permissions
    /\ nextId = w.nextId
    /\ now = w.now
    /\ procs = [p \in Procs |-> Idle]
    /\ deleted = {}
    /\ failures = 0
    /\ calls = 0

\* u1 has created a bucket and uploaded two objects of sizes at and around
\* the limits
InitSize ==
    \E z1, z2 \in BoundarySizes :
       \E w1 \in After(EmptyWorld(0), CreateBucketCall("u1", <<"a", "_", "b">>)) :
       \E w2 \in After(w1, UploadCall("u1", <<"a", "_", "b">>, <<"r", ".pdf">>, 0, z1)) :
       \E w3 \in After(w2, UploadCall("u1", <<"a", "_", "b">>, <<"r", ".pdf">>, 0, z2)) :
          InWorld(w3)

\* search_files with no query, unfiltered or filtered by a size category
SizeSearch ==
    /\ calls < MaxCalls
    /\ \E c \in SizeCategories \cup {""} :
          procs' = [procs EXCEPT !["p1"] =
                      OutcomeIn(World, SearchCall("u1", <<>>,
                                   [NoFilters EXCEPT !.size_category = c])).l]
    /\ calls' = calls + 1
    /\ UNCHANGED <<dirs, disk, metadata, search_index, permissions, nextId, now,
                   deleted, failures>>

SpecSize == InitSize /\ [][SizeSearch]_vars

\* small below 1,048,576 bytes, medium from 1,048,576 up to 10,485,759
\* bytes, large from 10,485,760 bytes
CategoryOfSize(size) ==
    IF size < 1048576 THEN "small"
    ELSE IF size >= 1048576 /\ size <= 10485759 THEN "medium"
    ELSE "large"

SizeSearched == procs["p1"].op = "search_files" /\ procs["p1"].pc = "done"

TypeNames ==
    {<<"r", ".pdf">>, <<"r", ".PDF">>, <<"R", " ", "r", ".PNG">>, <<"r", ".png">>,
     <<"r", ".mp4">>, <<"r", ".mp3">>, <<"r", ".zip">>, <<"r", ".py">>,
     <<"r", ".png", ".pdf">>, <<"r", ".zzz">>, <<"r">>, <<" ", ".pdf">>}

\* the keys of Config.FILE_TYPE_CATEGORIES
TableExtensions ==
    IMAGE_EXT \cup DOCUMENT_EXT \cup VIDEO_EXT \cup AUDIO_EXT \cup ARCHIVE_EXT
              \cup CODE_EXT

\* the lower-cased extension of the name recorded for object f in world w
RecordedExtension(w, f) == Lower1(Suffix(w.metadata[f].file_name))

UploadInstants == 0..(2 * TicksPerDay - 1)

ElapsedTicks ==
    {0, 1, TicksPerDay - 1, TicksPerDay,
     7 * TicksPerDay, 8 * TicksPerDay - 1, 8 * TicksPerDay,
     30 * TicksPerDay, 31 * TicksPerDay - 1, 31 * TicksPerDay,
     365 * TicksPerDay, 366 * TicksPerDay - 1, 366 * TicksPerDay}

DateRanges == {"today", "week", "month", "year"}

\* u1 has created a bucket and uploaded an object at instant t0
InitDate ==
    \E t0 \in UploadInstants :
       \E w1 \in After(EmptyWorld(t0), CreateBucketCall("u1", <<"a", "_", "b">>)) :
       \E w2 \in After(w1, UploadCall("u1", <<"a", "_", "b">>, <<"r", ".pdf">>, 0, 1)) :
          InWorld(w2)

\* search_files with no query and a date_range filter, datetime.now() being
\* some instant from now on
DateSearch ==
    /\ calls < MaxCalls
    /\ \E e \in ElapsedTicks : \E x \in DateRanges :
          /\ now' = now + e
          /\ procs' = [procs EXCEPT !["p1"] =
                         OutcomeIn([World EXCEPT !.now = now + e],
                                   SearchCall("u1", <<>>,
                                      [NoFilters EXCEPT !.date_range = x])).l]
    /\ calls' = calls + 1
    /\ UNCHANGED <<dirs, disk, metadata, search_index, permissions, nextId,
                   deleted, failures>>

SpecDate == InitDate /\ [][DateSearch]_vars

\* the elapsed whole days the filter allows
DayLimit(date_range) ==
    CASE date_range = "today" -> 0
      [] date_range = "week" -> 7
      [] date_range = "month" -> 30
      [] date_range = "year" -> 365

DateSearched == procs["p1"].op = "search_files" /\ procs["p1"].pc = "done"

\* C32: the date_range filter keeps an object exactly when the number of
\* elapsed whole days between its upload_date and the evaluation instant is
\* at most 0 for today, 7 for week, 30 for month and 365 for year; an object
\* uploaded less than 24 hours ago on the previous calendar day passes the
\* today filter.
C32_ElapsedWholeDays ==
    DateSearched =>
       LET rs == procs["p1"].results
           x == procs["p1"].filters.date_range
       IN {rs[i].index_key : i \in 1..Len(rs)}
             = {f \in DOMAIN search_index :
                  (now - search_index[f].upload_date) \div TicksPerDay <= DayLimit(x)}

\* -------------------------------------------------- the ownership bonus
\* the points calculate_relevance_score adds to result x for is_own_file
OwnershipBonus(x, q) ==
    calculate_relevance_score(x, q)
       - calculate_relevance_score([x EXCEPT !.is_own_file = FALSE], q)

\* C33: in the relevance score of a search result the 5-point ownership
\* bonus is added exactly when the user performing the search is the owner
\* of the object; a grantee searching a shared bucket receives no ownership
\* bonus for the objects in it.
C33_OwnershipBonusForOwnerOnly ==
    \A u \in Users : \A q \in {<<"r">>, <<"R">>, <<".png">>} :
       LET rs == Outcome(SearchCall(u, q, NoFilters)).l.results
       IN \A i \in 1..Len(rs) :
             /\ OwnershipBonus(rs[i], q) = (IF rs[i].user_id = u THEN 5 ELSE 0)
             /\ IsGrantee(u, rs[i].bucket_id) /\ rs[i].user_id # u
                   => OwnershipBonus(rs[i], q) = 0

\* ------------------------------------------------------- the suggestions
\* C34: a search with a non-empty query that matches zero objects returns a
\* non-empty list of generic guidance suggestions, and every search returns
\* at most 3 suggestions.
C34_GuidanceWhenNothingFound ==
    \A u \in Users : \A q \in SearchQueries : \A fl \in SearchFilterSets :
       LET r == Outcome(SearchCall(u, q, fl)).l
       IN /\ Len(r.search_metadata.search_suggestions) <= 3
          /\ q # <<>> /\ r.results = <<>>
                => r.search_metadata.search_suggestions # <<>>

\* ------------------------------------------------- the search at the boundary
\* requests to GET /api/search by every user, for a bucket of u1 holding two
\* objects, shared with nobody or with u3; names and query texts that spell
\* a user id are among those drawn
ApiNames == {<<"r", ".pdf">>, <<"u2", ".pdf">>, <<"u3", "_", "r", ".png">>}

ApiQueries == {<<>>, <<"r">>, <<".pdf">>, <<"u1">>, <<"u2">>, <<"u3">>}

ApiFilterSets == {NoFilters, [NoFilters EXCEPT !.file_type = "document"]}

\* u1 has created a bucket, uploaded objects named n1 and n2, and shared the
\* bucket with nobody or with the user of the email e3
InitApi ==
    \E n1, n2 \in ApiNames :
       \E w1 \in After(EmptyWorld(0), CreateBucketCall("u1", <<"a", "_", "b">>)) :
       \E w2 \in After(w1, UploadCall("u1", <<"a", "_", "b">>, n1, 0, 1)) :
       \E w3 \in After(w2, UploadCall("u1", <<"a", "_", "b">>, n2, 0, 1)) :
       \E w4 \in {w3} \cup After(w3, ShareCall("u1", BucketId("u1", <<"a", "_", "b">>),
                                               "e3", "view")) :
          InWorld(w4)

\* one request to GET /api/search, run to its response
ApiSearch ==
    /\ calls < MaxCalls
    /\ \E u \in Users : \E q \in ApiQueries : \E fl \in ApiFilterSets :
          procs' = [procs EXCEPT !["p1"] = Outcome(ApiSearchCall(u, q, fl)).l]
    /\ calls' = calls + 1
    /\ UNCHANGED <<dirs, disk, metadata, search_index, permissions, nextId, now,
                   deleted, failures>>

SpecApi == InitApi /\ [][ApiSearch]_vars

ApiSearched == procs["p1"].op = "api_search_files" /\ procs["p1"].pc = "done"

\* C35: the search exposed at the boundary computes the accessible buckets
\* from the authenticated caller's user_id and matches the file names
\* against the caller-supplied query text: it returns the entries of the
\* buckets the caller owns or is a grantee of whose names contain the query
\* text and which pass the filters, and no entry of a bucket that is
\* accessible to the user the query text spells and not to the caller.
C35_SearchAsAuthenticatedCaller ==
    ApiSearched =>
       LET u == procs["p1"].user_id
           q == procs["p1"].query
           rs == procs["p1"].results
       IN /\ {rs[i].index_key : i \in 1..Len(rs)}
               = Matching(u, q, procs["p1"].filters, now)
          /\ \A i \in 1..Len(rs) :
                \/ \E d \in dirs : d[1] = u /\ rs[i].bucket_id = BucketId(d[1], d[2])
                \/ IsGrantee(u, rs[i].bucket_id)

\* ------------------------------------------------------ a bucket just created
\* every bucket that a step creates is, after the step, at level none for
\* every user other than its owner
FreshBucketClosed ==
    \A d \in dirs' \ dirs : \A g \in Users \ {d[1]} :
       check_permission_level(permissions', g, BucketId(d[1], d[2])) = "none"

\* C36: a bucket that has just been created is accessible to no user other
\* than its owner: until the owner calls share after that creation, every
\* other user's resolved level on it is none, including users who were
\* granted access to an earlier, since-deleted bucket of the same owner and
\* name and users named in a share issued before the bucket existed.
C36_FreshBucketOwnerOnly == [][FreshBucketClosed /\ OnlyShareGrants]_vars

\* --------------------------------------------------- the permission records
\* C37: in every reachable state every permission record is well-formed: its
\* permission_level is one of view, upload, full; its grantee is different
\* from the owner prefix of its bucket_id; and its owner field equals that
\* owner prefix.
C37_PermissionRecordsWellFormed ==
    \A k \in DOMAIN permissions :
       LET rec == permissions[k]
           parts == Split1(rec.bucket_id)
       IN /\ rec.permission_level \in {"view", "upload", "full"}
          /\ Len(parts) = 2
          /\ <<rec.shared_with>> # parts[1]
          /\ <<rec.owner>> = parts[1]

\* two records are held, of buckets of different owners, one at level view
\* and one at level full
C37_Witness ==
    /\ Cardinality(DOMAIN permissions) = 2
    /\ \E j, k \in DOMAIN permissions :
          /\ permissions[j].permission_level = "view"
          /\ permissions[k].permission_level = "full"
          /\ permissions[j].owner # permissions[k].owner

\* ------------------------------------------- search and download together
\* the objects that the search of u with no query and no filter returns
Visible(u) ==
    LET rs == Outcome(SearchCall(u, <<>>, NoFilters)).l.results
    IN {rs[i].index_key : i \in 1..Len(rs)}

\* download_file of f by u is refused for want of access
Refused(u, f) ==
    LET r == Outcome(DownloadCall(u, f)).l
    IN ~r.ok /\ r.msg = "Access denied"

\* C38: after any sequence of completed operations, made one at a time
\* with no I/O failure, search visibility and download authorization agree:
\* for every user and every stored object, the object is among the results
\* of that user's search with an empty query and no filter exactly when the
\* download of it by that user is not refused for access reasons.
C38_SearchAgreesWithDownload ==
    \A u \in Users : \A f \in DOMAIN metadata :
       f \in Visible(u) <=> ~Refused(u, f)

\* an object that its owner and a grantee both find and download, and that a
\* third user neither finds nor may download
C38_Witness ==
    \E f \in DOMAIN metadata : \E g, s \in Users :
       /\ g # metadata[f].user_id /\ s # metadata[f].user_id
       /\ f \in Visible(metadata[f].user_id)
       /\ Outcome(DownloadCall(metadata[f].user_id, f)).l.ok
       /\ IsGrantee(g, metadata[f].bucket_id)
       /\ f \in Visible(g) /\ Outcome(DownloadCall(g, f)).l.ok
       /\ f \notin Visible(s) /\ Refused(s, f)

\* ------------------------------------------- the three authorization routines
\* bucket ids asked about: those of the buckets and of the permission
\* records, of buckets that do not exist, without a separator, with an
\* empty owner and with an empty name
AskedBucketIds ==
    BucketIds
       \cup {BucketId(d[1], d[2]) : d \in dirs}
       \cup {permissions[k].bucket_id : k \in DOMAIN permissions}
       \cup {BucketId(u, <<"b">>) : u \in Users}
       \cup {<<"u2">>, <<"u1", "_">>, <<"_", "u1">>, <<"_">>, <<>>}

\* C39: PermissionManager.can_perform_action, StorageManager.
\* _check_bucket_access and AuthManager.check_bucket_access give the same
\* decision for every user, every bucket_id, every state of the permissions
\* the program can be in, and every action among view, upload and full.
C39_AuthorizationRoutinesAgree ==
    \A u \in Users : \A b \in AskedBucketIds : \A a \in Actions :
       /\ can_perform_action(permissions, u, b, a)
             <=> _check_bucket_access(permissions, u, b, a)
       /\ _check_bucket_access(permissions, u, b, a)
             <=> check_bucket_access(permissions, u, b, a)

\* records at the levels view and upload are held: the three routines grant
\* view and refuse upload to the one grantee, grant upload and refuse full
\* to the other, and refuse everything on an id without separator
C39_Witness ==
    \E j, k \in DOMAIN permissions :
       LET v == permissions[j]
           p == permissions[k]
       IN /\ v.permission_level = "view" /\ p.permission_level = "upload"
          /\ check_bucket_access(permissions, v.shared_with, v.bucket_id, "view")
          /\ ~check_bucket_access(permissions, v.shared_with, v.bucket_id, "upload")
          /\ can_perform_action(permissions, p.shared_with, p.bucket_id, "upload")
          /\ ~_check_bucket_access(permissions, p.shared_with, p.bucket_id, "full")
          /\ ~can_perform_action(permissions, "u1", <<"u1">>, "view")

====
